---------------------------- MODULE Spec2Model ----------------------------
(***************************************************************************)
(* Model of insights_mcp/athena.py: AthenaClient.execute_query and the     *)
(* methods it is composed of (_maybe_wrap_with_limit, _wait_for_completion,*)
(* _fetch_results), running against the remote query service.              *)
(*                                                                         *)
(* Text (SQL, column labels) is a sequence of one-character strings, so    *)
(* that strip / rstrip / the prefix regex are computed as Python does.     *)
(* A Python Optional is a sequence of length 0 (None) or 1 (the value).    *)
(***************************************************************************)
EXTENDS Integers, Sequences, FiniteSets, TLC

VARIABLES
    self,                \* the AthenaClient's configuration (set by __init__)
    executions,          \* remote service: the executions it holds, by id
    pc,                  \* per call: where the call stands
    args,                \* per call: execute_query's arguments
    query_execution_id,  \* per call: the id start_query_execution returned
    elapsed,             \* per call: time.time() - start_time
    state,               \* per call: the State of the last status response
    columns,             \* per call: _fetch_results' columns
    rows,                \* per call: _fetch_results' rows
    next_token,          \* per call: _fetch_results' next_token
    is_first_page,       \* per call: _fetch_results' is_first_page
    outcome,             \* per call: what the call returned or raised
    request,             \* per call: the tool or table operation invoked
    reply,               \* per call: the text the tool returned
    log                  \* per call: the remote requests it issued, in order

vars == <<self, executions, pc, args, query_execution_id, elapsed, state,
          columns, rows, next_token, is_first_page, outcome, request, reply,
          log>>

--------------------------------------------------------------------------
(* Bounds of the model *)

\* largest timeout (in clock ticks) a client is configured with
MaxTimeout == 3
\* largest poll_interval (in clock ticks) a client is configured with
MaxInterval == 2
\* largest number of data rows an execution's result holds
MaxDataRows == 3
\* largest page size (max_results) a client is configured with
MaxPageSize == 2
\* how many rows beyond the requested MaxResults the service may put in a page
MaxOverfill == 1

Calls == {1, 2}

None == <<>>
Some(v) == <<v>>
Min(a, b) == IF a <= b THEN a ELSE b
Max(a, b) == IF a >= b THEN a ELSE b

--------------------------------------------------------------------------
(* Text, as Python's str methods and the re module compute it *)

LowerCase == <<"a","b","c","d","e","f","g","h","i","j","k","l","m",
               "n","o","p","q","r","s","t","u","v","w","x","y","z">>
UpperCase == <<"A","B","C","D","E","F","G","H","I","J","K","L","M",
               "N","O","P","Q","R","S","T","U","V","W","X","Y","Z">>
DigitChars == <<"0","1","2","3","4","5","6","7","8","9">>

Range(f) == {f[i] : i \in DOMAIN f}

\* str.strip() with no argument strips these
Whitespace == {" ", "\t", "\n", "\r", "\f"}

\* the characters the regex \w matches; \b is a boundary between \w and not-\w
WordChars == Range(LowerCase) \cup Range(UpperCase) \cup Range(DigitChars) \cup {"_"}

\* re.IGNORECASE: the upper-case form of a character
Upper(ch) ==
    IF \E i \in DOMAIN LowerCase : LowerCase[i] = ch
    THEN UpperCase[CHOOSE i \in DOMAIN LowerCase : LowerCase[i] = ch]
    ELSE ch

RECURSIVE LStrip(_, _)
LStrip(s, set) ==
    IF s # <<>> /\ Head(s) \in set THEN LStrip(Tail(s), set) ELSE s

RECURSIVE RStrip(_, _)
RStrip(s, set) ==
    IF s # <<>> /\ s[Len(s)] \in set
    THEN RStrip(SubSeq(s, 1, Len(s) - 1), set)
    ELSE s

\* str.strip()
Strip(s) == RStrip(LStrip(s, Whitespace), Whitespace)

\* str(int(n)) for n >= 0
RECURSIVE IntToStr(_)
IntToStr(n) ==
    IF n < 10 THEN <<DigitChars[n + 1]>>
    ELSE Append(IntToStr(n \div 10), DigitChars[(n % 10) + 1])

\* the keywords of _NON_WRAPPABLE_PREFIX
NonWrappableKeywords ==
    { <<"S","H","O","W">>, <<"D","E","S","C","R","I","B","E">>,
      <<"E","X","P","L","A","I","N">>, <<"M","S","C","K">>, <<"U","S","E">>,
      <<"S","E","T">>, <<"C","R","E","A","T","E">>, <<"D","R","O","P">>,
      <<"A","L","T","E","R">>, <<"I","N","S","E","R","T">>,
      <<"U","P","D","A","T","E">>, <<"D","E","L","E","T","E">> }

\* s starts with keyword kw, ignoring case, and a word boundary follows it
StartsWithKeyword(s, kw) ==
    /\ Len(s) >= Len(kw)
    /\ \A i \in 1..Len(kw) : Upper(s[i]) = kw[i]
    /\ (Len(s) > Len(kw) => s[Len(kw) + 1] \notin WordChars)

\* the pattern without re.IGNORECASE
non_wrappable_prefix_case_sensitive(q) ==
    \E kw \in NonWrappableKeywords :
        LET s == LStrip(q, Whitespace)
        IN  /\ Len(s) >= Len(kw)
            /\ SubSeq(s, 1, Len(kw)) = kw
            /\ (Len(s) > Len(kw) => s[Len(kw) + 1] \notin WordChars)

\* _NON_WRAPPABLE_PREFIX.search(q): ^\s*(SHOW|...|DELETE)\b, re.IGNORECASE
NON_WRAPPABLE_PREFIX(q) ==
    \E kw \in NonWrappableKeywords : StartsWithKeyword(LStrip(q, Whitespace), kw)

\* query.strip().rstrip(";").strip()
strip_trailing_semicolon(query) == Strip(RStrip(Strip(query), {";"}))

WrapHead == <<"S","E","L","E","C","T"," ","*"," ","F","R","O","M"," ","(","\n">>
WrapTail == <<"\n",")"," ","A","S"," ","_","q","\n","L","I","M","I","T"," ">>

\* the text wrapped as it came, without stripping it first
wrap_unstripped(query, limit) ==
    IF NON_WRAPPABLE_PREFIX(query)
    THEN query
    ELSE WrapHead \o query \o WrapTail \o IntToStr(limit)

\* lines 56-61
maybe_wrap_with_limit(query, limit) ==
    LET q == strip_trailing_semicolon(query)
    IN  IF NON_WRAPPABLE_PREFIX(q)
        THEN q
        ELSE WrapHead \o q \o WrapTail \o IntToStr(limit)

\* lines 86-88 of execute_query: the SQL text that is submitted
query_to_run(query, max_rows, enforce_limit) ==
    IF enforce_limit /\ max_rows # None
    THEN maybe_wrap_with_limit(query, max_rows[1])
    ELSE query

--------------------------------------------------------------------------
(* The remote query service *)

\* the StateChangeReason texts the service gives for a failed execution
Reasons == {None, Some("SYNTAX_ERROR: line 1")}

ColumnLabel == "c1"

\* the service's result rows for n data rows: the header row, then the data
HeaderRow == [Data |-> <<[VarCharValue |-> ColumnLabel]>>]
DataRow(i) == [Data |-> <<[VarCharValue |-> "r" \o ToString(i)]>>]
ResultRows(n) == <<HeaderRow>> \o [i \in 1..n |-> DataRow(i)]
ResultColumnInfo == <<[Label |-> ColumnLabel, Name |-> "c1_name"]>>

\* the statements the callers of this model submit
SelectOne == <<"S","E","L","E","C","T"," ","1">>
ShowTables == <<"S","H","O","W"," ","T","A","B","L","E","S">>
SelectPair == <<"S","E","L","E","C","T"," ","a",","," ","b">>
SelectJoin == <<"S","E","L","E","C","T"," ","a",".","x",","," ","b",".","x">>
DescribeT == <<"D","E","S","C","R","I","B","E"," ","d",".","t">>

\* a cell with a text, a cell without one, a row of cells with texts
Cell(v) == [VarCharValue |-> v]
NullCell == <<>>
Row(vals) == [Data |-> [i \in DOMAIN vals |-> Cell(vals[i])]]
Column(label, name) == [Label |-> label, Name |-> name]

\* two columns, the second without a label; a cell without a text
PairTable ==
    [ColumnInfo |-> <<Column("a", "a"), Column("", "b")>>,
     Rows |-> <<Row(<<"a", "b">>), [Data |-> <<Cell("1"), NullCell>>],
                Row(<<"3", "4">>)>>]

\* two columns of a join that share their label
JoinTable ==
    [ColumnInfo |-> <<Column("x", "x"), Column("x", "x")>>,
     Rows |-> <<Row(<<"x", "x">>), Row(<<"1", "2">>), Row(<<"3", "4">>)>>]

\* lines 222-225: DESCRIBE output whose metadata advertises three columns
\* while each row carries one tab-separated cell
DescribeTable ==
    [ColumnInfo |-> <<Column("col_name", "col_name"),
                      Column("data_type", "data_type"),
                      Column("comment", "comment")>>,
     Rows |-> <<Row(<<"col_name", "data_type", "comment">>),
                Row(<<<<"i","d","\t","b","i","g","i","n","t","\t">>>>),
                Row(<<<<"n","a","m","e","\t","v","a","r","c","h","a","r","\t">>>>)>>]

\* DESCRIBE output with a cell for every column, the comment without a text
DescribeTableWellFormed ==
    [ColumnInfo |-> <<Column("col_name", "col_name"),
                      Column("data_type", "data_type"),
                      Column("comment", "comment")>>,
     Rows |-> <<Row(<<"col_name", "data_type", "comment">>),
                [Data |-> <<Cell(<<"i","d">>), Cell(<<"b","i","g","i","n","t">>), NullCell>>],
                [Data |-> <<Cell(<<"#"," ","P","a","r","t","i","t","i","o","n">>), NullCell, NullCell>>]>>]

\* lines 260-272: SHOW CREATE TABLE output, one line of the statement per row
CreateTable ==
    [ColumnInfo |-> <<Column("createtab_stmt", "createtab_stmt")>>,
     Rows |-> <<Row(<<"createtab_stmt">>),
                Row(<<<<"C","R","E","A","T","E"," ","T","A","B","L","E"," ","t"," ","(">>>>),
                [Data |-> <<NullCell>>],
                Row(<<<<")"," "," ">>>>)>>]

\* lines 200-204: SHOW TABLES IN output
TablesTable ==
    [ColumnInfo |-> <<Column("tab_name", "tab_name")>>,
     Rows |-> <<Row(<<"tab_name">>), Row(<<<<"t","1">>>>), [Data |-> <<NullCell>>]>>]

\* the statements that have a result table of their own
Describe == <<"D","E","S","C","R","I","B","E"," ">>
ShowCreateTable == <<"S","H","O","W"," ","C","R","E","A","T","E"," ","T","A","B","L","E"," ">>
ShowTablesIn == <<"S","H","O","W"," ","T","A","B","L","E","S"," ","I","N"," ">>
IsPrefix(p, s) == Len(p) <= Len(s) /\ SubSeq(s, 1, Len(p)) = p

\* the result tables the service may hold for a statement once it succeeded
ResultTables(sql) ==
    CASE sql = SelectPair -> {PairTable}
      [] sql = SelectJoin -> {JoinTable}
      [] IsPrefix(Describe, sql) -> {DescribeTable, DescribeTableWellFormed}
      [] IsPrefix(ShowCreateTable, sql) -> {CreateTable}
      [] IsPrefix(ShowTablesIn, sql) -> {TablesTable}
      [] OTHER -> {[ColumnInfo |-> ResultColumnInfo, Rows |-> ResultRows(n)] :
                      n \in 0..MaxDataRows}

\* start_query_execution(QueryString=sql): the execution the service creates
NewExecution(sql) ==
    [QueryString |-> sql, State |-> "RUNNING", StateChangeReason |-> None,
     ColumnInfo |-> <<>>, Rows |-> <<>>, Statistics |-> None]

\* the execution ends: RUNNING -> SUCCEEDED | FAILED | CANCELLED, and stays
RemoteFinish(e) ==
    /\ e \in DOMAIN executions
    /\ executions[e].State = "RUNNING"
    /\ \/ \E t \in ResultTables(executions[e].QueryString) :
            executions' = [executions EXCEPT
                ![e].State = "SUCCEEDED",
                ![e].ColumnInfo = t.ColumnInfo,
                ![e].Rows = t.Rows,
                ![e].Statistics = Some("DataScannedInBytes")]
       \/ \E s \in {"FAILED", "CANCELLED"}, r \in Reasons :
            executions' = [executions EXCEPT
                ![e].State = s, ![e].StateChangeReason = r]
    /\ UNCHANGED <<self, request, reply, pc, args, query_execution_id, elapsed, state,
                   columns, rows, next_token, is_first_page, outcome, log>>

\* get_query_results(QueryExecutionId=id, MaxResults=m, NextToken=token):
\* the pages the service may answer with. A token is the number of rows
\* already delivered; a page holds at least one row while rows remain, and
\* may hold fewer rows than asked for, or up to MaxOverfill more.
ResultPages(id, m, token) ==
    LET all == executions[id].Rows
        pos == IF token = None THEN 0 ELSE token[1]
        left == Len(all) - pos
    IN  IF left = 0
        THEN { [Rows |-> <<>>, NextToken |-> None] }
        ELSE UNION { { [Rows |-> SubSeq(all, pos + 1, pos + k),
                        NextToken |-> t] :
                        t \in IF k < left THEN {Some(pos + k)}
                              ELSE {None, Some(pos + k)} } :
                     k \in 1..Min(left, m + MaxOverfill) }

\* one entry of a call's log
LogEntry(op, id, size, token, got, n, next, at) ==
    [op |-> op, id |-> id, MaxResults |-> size, NextToken |-> token,
     got |-> got, n |-> n, next |-> next, elapsed |-> at]

NoOutcome == [kind |-> "none", exc |-> "", msg |-> "", result |-> None]
Raise(exc, msg) == [kind |-> "raise", exc |-> exc, msg |-> msg, result |-> None]
Return(result) == [kind |-> "return", exc |-> "", msg |-> "", result |-> Some(result)]

--------------------------------------------------------------------------
(* AthenaClient.execute_query, lines 63-111 *)

\* the SQL texts a caller passes
Queries == {SelectOne, ShowTables}

\* the max_rows a caller passes: None, or a cap
MaxRowsArgs == {None} \cup {Some(n) : n \in 0..MaxDataRows}

\* the arguments of a call of execute_query
Arguments == [query : Queries, max_rows : MaxRowsArgs, enforce_limit : BOOLEAN]

\* the call's own trace: its deadline checks and remote requests, in order
Logged(c, entry) == log' = [log EXCEPT ![c] = Append(@, entry)]

\* the entries of call c's log with the given op
Entries(c, op) == SelectSeq(log[c], LAMBDA e : e.op = op)

\* lines 86-96: build the SQL to run and submit it; the service answers with
\* a new execution's id, or the request fails and the error propagates
ExecuteQuery(c) ==
    /\ pc[c] = "idle"
    /\ LET sql == query_to_run(args[c].query, args[c].max_rows,
                               args[c].enforce_limit)
           id == Len(executions) + 1
       IN  \/ /\ executions' = Append(executions, NewExecution(sql))
              /\ query_execution_id' = [query_execution_id EXCEPT ![c] = id]
              /\ Logged(c, LogEntry("start_query_execution", id, 0, None,
                                    "QueryExecutionId", 0, None, 0))
              \* _wait_for_completion line 115: start_time = time.time()
              /\ elapsed' = [elapsed EXCEPT ![c] = 0]
              /\ pc' = [pc EXCEPT ![c] = "check"]
              /\ UNCHANGED outcome
           \/ /\ Logged(c, LogEntry("start_query_execution", 0, 0, None,
                                    "ClientError", 0, None, 0))
              /\ outcome' = [outcome EXCEPT ![c] = Raise("ClientError", "")]
              /\ pc' = [pc EXCEPT ![c] = "done"]
              /\ UNCHANGED <<executions, query_execution_id, elapsed>>
    /\ UNCHANGED <<self, request, reply, args, state, columns, rows, next_token, is_first_page>>

--------------------------------------------------------------------------
(* AthenaClient._wait_for_completion, lines 113-131 *)

\* wall-clock time passes between two readings of time.time(): the latency
\* of a status call, a sleep that lasts longer than asked, scheduling.
\* Values beyond the timeout all read as "exceeded".
TimePasses(c) ==
    /\ pc[c] = "check"
    /\ elapsed[c] <= self.timeout
    /\ elapsed' = [elapsed EXCEPT ![c] = @ + 1]
    /\ UNCHANGED <<self, request, reply, executions, pc, args, query_execution_id, state,
                   columns, rows, next_token, is_first_page, outcome, log>>

\* the deadline never taken as exceeded
timed_out_never(c) == FALSE

\* the deadline taken as reached when the elapsed time equals the timeout
timed_out_at_equal(c) == elapsed[c] >= self.timeout

\* line 118: the deadline test
timed_out(c) == elapsed[c] > self.timeout

\* lines 117-121: the deadline check made before each poll; when the
\* deadline is exceeded the call goes to `then` with outcome `with`
DeadlineCheckThen(c, then, with) ==
    /\ pc[c] = "check"
    /\ IF timed_out(c)
       THEN /\ outcome' = [outcome EXCEPT ![c] = with]
            /\ pc' = [pc EXCEPT ![c] = then]
            /\ Logged(c, LogEntry("deadline_check", query_execution_id[c], 0,
                                  None, "TimeoutError", 0, None, elapsed[c]))
       ELSE /\ pc' = [pc EXCEPT ![c] = "poll"]
            /\ Logged(c, LogEntry("deadline_check", query_execution_id[c], 0,
                                  None, "ok", 0, None, elapsed[c]))
            /\ UNCHANGED outcome
    /\ UNCHANGED <<self, request, reply, executions, args, query_execution_id, elapsed, state,
                   columns, rows, next_token, is_first_page>>

\* a timeout that resubmits the query instead of raising
DeadlineCheckResubmit(c) == DeadlineCheckThen(c, "idle", NoOutcome)

\* a timeout handled as a remote failure instead of raising TimeoutError
DeadlineCheckAsFailure(c) == DeadlineCheckThen(c, "waited", NoOutcome)

\* lines 119-121: raise TimeoutError, which execute_query does not catch
DeadlineCheck(c) == DeadlineCheckThen(c, "done", Raise("TimeoutError", ""))

\* CANCELLED forgotten among the terminal states
is_terminal_without_cancelled(s) == s \in {"SUCCEEDED", "FAILED"}

\* line 128: the states the poller returns
is_terminal(s) == s \in {"SUCCEEDED", "FAILED", "CANCELLED"}

\* the latest execution submitted by any call, as if the id were kept on
\* the shared client
latest_execution_id(c) == Len(executions)

\* lines 97-111: the execution id is a local of the call, handed to the
\* poller and to the fetch as a parameter
execution_id(c) == query_execution_id[c]

\* lines 123-129: one status poll; a terminal state is returned
Poll(c) ==
    /\ pc[c] = "poll"
    /\ LET s == executions[execution_id(c)].State
       IN  /\ state' = [state EXCEPT ![c] = s]
           /\ Logged(c, LogEntry("poll", execution_id(c), 0, None, s,
                                 0, None, elapsed[c]))
           /\ pc' = [pc EXCEPT ![c] = IF is_terminal(s) THEN "waited" ELSE "sleep"]
    /\ UNCHANGED <<self, request, reply, executions, args, query_execution_id, elapsed,
                   columns, rows, next_token, is_first_page, outcome>>

\* the poller polls again at once, without sleeping
SleepSkipped(c) ==
    /\ pc[c] = "sleep"
    /\ Logged(c, LogEntry("sleep", execution_id(c), 0, None, "", 0,
                          None, elapsed[c]))
    /\ pc' = [pc EXCEPT ![c] = "check"]
    /\ UNCHANGED <<self, request, reply, executions, args, query_execution_id, elapsed, state,
                   columns, rows, next_token, is_first_page, outcome>>

\* the deadline looked at once, before the loop: after a sleep the next
\* poll follows without a check
SleepThenPoll(c) ==
    /\ pc[c] = "sleep"
    /\ elapsed' = [elapsed EXCEPT ![c] = @ + self.poll_interval]
    /\ Logged(c, LogEntry("sleep", execution_id(c), 0, None, "", 0,
                          None, elapsed[c]))
    /\ pc' = [pc EXCEPT ![c] = "poll"]
    /\ UNCHANGED <<self, request, reply, executions, args, query_execution_id,
                   state, columns, rows, next_token, is_first_page, outcome>>

\* line 131: time.sleep(self.poll_interval) lasts at least poll_interval
Sleep(c) ==
    /\ pc[c] = "sleep"
    /\ elapsed' = [elapsed EXCEPT ![c] = @ + self.poll_interval]
    /\ Logged(c, LogEntry("sleep", execution_id(c), 0, None, "", 0,
                          None, elapsed[c]))
    /\ pc' = [pc EXCEPT ![c] = "check"]
    /\ UNCHANGED <<self, request, reply, executions, args, query_execution_id, state,
                   columns, rows, next_token, is_first_page, outcome>>

--------------------------------------------------------------------------
(* execute_query after the poller returned, lines 101-111 *)

\* the fetch attempted whatever the poller returned
is_failure_never(s) == FALSE

\* only FAILED taken for a failure
is_failure_only_failed(s) == s = "FAILED"

\* the failure branch taken whatever the poller returned
is_failure_always(s) == TRUE

\* line 101: the poller's state sends the call to the failure branch
is_failure(s) == s # "SUCCEEDED"

\* lines 105-108: the text of the RuntimeError
failure_message(reason) ==
    "Query failed: " \o (IF reason = None THEN "Unknown error" ELSE reason[1])

\* lines 101-108: look the failure reason up and raise
FailureReason(c) ==
    /\ pc[c] = "waited"
    /\ is_failure(state[c])
    /\ LET reason == executions[execution_id(c)].StateChangeReason
       IN  /\ Logged(c, LogEntry("reason", execution_id(c), 0, None,
                                 executions[execution_id(c)].State,
                                 0, reason, 0))
           /\ outcome' = [outcome EXCEPT ![c] =
                            Raise("RuntimeError", failure_message(reason))]
    /\ pc' = [pc EXCEPT ![c] = "done"]
    /\ UNCHANGED <<self, request, reply, executions, args, query_execution_id, elapsed, state,
                   columns, rows, next_token, is_first_page>>

\* the rows kept on the client: a call goes on from the rows another call
\* has gathered
BeginFetchOnSharedRows(c) ==
    /\ pc[c] = "waited"
    /\ ~is_failure(state[c])
    /\ columns' = [columns EXCEPT ![c] = <<>>]
    /\ rows' = [rows EXCEPT ![c] = rows[CHOOSE d \in Calls : d # c]]
    /\ next_token' = [next_token EXCEPT ![c] = None]
    /\ is_first_page' = [is_first_page EXCEPT ![c] = TRUE]
    /\ pc' = [pc EXCEPT ![c] = "fetch"]
    /\ UNCHANGED <<self, request, reply, executions, args, query_execution_id,
                   elapsed, state, outcome, log>>

\* lines 111, 135-138: enter _fetch_results
BeginFetch(c) ==
    /\ pc[c] = "waited"
    /\ ~is_failure(state[c])
    /\ columns' = [columns EXCEPT ![c] = <<>>]
    /\ rows' = [rows EXCEPT ![c] = <<>>]
    /\ next_token' = [next_token EXCEPT ![c] = None]
    /\ is_first_page' = [is_first_page EXCEPT ![c] = TRUE]
    /\ pc' = [pc EXCEPT ![c] = "fetch"]
    /\ UNCHANGED <<self, request, reply, executions, args, query_execution_id, elapsed, state,
                   outcome, log>>

--------------------------------------------------------------------------
(* AthenaClient._fetch_results, lines 133-198 *)

\* a Python dict, as the sequence of its <<key, value>> items in insertion
\* order; d[k] = v replaces the value of a key already present
DictSet(d, k, v) ==
    IF \E j \in DOMAIN d : d[j][1] = k
    THEN [j \in DOMAIN d |-> IF d[j][1] = k THEN <<k, v>> ELSE d[j]]
    ELSE Append(d, <<k, v>>)

\* cell.get("VarCharValue")
CellValue(cell) ==
    IF "VarCharValue" \in DOMAIN cell THEN Some(cell.VarCharValue) ELSE None

\* lines 174-177: the dict of one service row
RECURSIVE RowDataFrom(_, _, _, _)
RowDataFrom(row_data, cols, cells, i) ==
    IF i > Len(cells) THEN row_data
    ELSE RowDataFrom(DictSet(row_data, cols[i], CellValue(cells[i])),
                     cols, cells, i + 1)

RowData(cols, row) == RowDataFrom(<<>>, cols, row.Data, 1)

\* columns[i] raises IndexError for a row with more cells than columns
RowFits(cols, row) == Len(row.Data) <= Len(cols)

\* the cap never looked at
cap_never_reached(n, max_rows) == FALSE

\* a cap of 0 taken for no cap
cap_reached_when_positive(n, max_rows) ==
    max_rows # None /\ max_rows[1] > 0 /\ n >= max_rows[1]

\* lines 141 and 179-180: the cap is reached, the loops break
cap_reached(n, max_rows) == max_rows # None /\ n >= max_rows[1]

\* every row of the page appended, the cap looked at only between pages
RECURSIVE append_all_rows(_, _, _, _)
append_all_rows(acc, data_rows, cols, max_rows) ==
    IF data_rows = <<>> THEN acc
    ELSE append_all_rows(Append(acc, RowData(cols, Head(data_rows))),
                         Tail(data_rows), cols, max_rows)

\* lines 173-180: append the page's rows up to the cap
RECURSIVE append_rows(_, _, _, _)
append_rows(acc, data_rows, cols, max_rows) ==
    IF data_rows = <<>> THEN acc
    ELSE LET more == Append(acc, RowData(cols, Head(data_rows)))
         IN  IF cap_reached(Len(more), max_rows) THEN more
             ELSE append_rows(more, Tail(data_rows), cols, max_rows)

\* the first page asked for without a slot for the header row
page_size_without_allowance(n_rows, max_rows, first) ==
    IF max_rows # None
    THEN Max(1, Min(self.max_results, max_rows[1] - n_rows))
    ELSE self.max_results

\* lines 144-155: the MaxResults of the next page request
page_size(n_rows, max_rows, first) ==
    IF max_rows # None
    THEN LET remaining == max_rows[1] - n_rows
             page_cap == remaining + (IF first THEN 1 ELSE 0)
         IN  Max(1, Min(self.max_results, page_cap))
    ELSE self.max_results

\* lines 162-165: col["Label"] or col["Name"]
column_names(info) ==
    [i \in DOMAIN info |-> IF info[i].Label # "" THEN info[i].Label ELSE info[i].Name]

\* the header row kept as a data row
data_rows_with_header(page_rows, first) == page_rows

\* the first row of every page taken for a header
data_rows_without_first(page_rows, first) == SubSeq(page_rows, 2, Len(page_rows))

\* lines 161-170: the first page's first row is the header
data_rows_of(page_rows, first) ==
    IF first THEN SubSeq(page_rows, 2, Len(page_rows)) ELSE page_rows

\* the page size max_results taken for a cap on the rows
fetch_done_at_page_size(token, n_rows, max_rows) ==
    \/ token = None
    \/ n_rows >= self.max_results
    \/ (max_rows # None /\ n_rows >= max_rows[1])

\* line 183: the page loop ends
fetch_done(token, n_rows, max_rows) ==
    token = None \/ (max_rows # None /\ n_rows >= max_rows[1])

\* lines 140-184: one turn of the page loop
FetchPage(c) ==
    /\ pc[c] = "fetch"
    /\ LET max_rows == args[c].max_rows
           id == execution_id(c)
           size == page_size(Len(rows[c]), max_rows, is_first_page[c])
       IN  IF cap_reached(Len(rows[c]), max_rows)
           THEN \* lines 141-142
                /\ pc' = [pc EXCEPT ![c] = "stats"]
                /\ UNCHANGED <<columns, rows, next_token, is_first_page,
                               outcome, log>>
           ELSE \/ \* the request fails: the error propagates
                   /\ Logged(c, LogEntry("get_query_results", id, size,
                                         next_token[c], "ClientError", 0, None, 0))
                   /\ outcome' = [outcome EXCEPT ![c] = Raise("ClientError", "")]
                   /\ pc' = [pc EXCEPT ![c] = "done"]
                   /\ UNCHANGED <<columns, rows, next_token, is_first_page>>
                \/ \* the service answers with a page
                   /\ executions[id].State = "SUCCEEDED"
                   /\ \E page \in ResultPages(id, size, next_token[c]) :
                        LET cols == IF is_first_page[c]
                                    THEN column_names(executions[id].ColumnInfo)
                                    ELSE columns[c]
                            data_rows == data_rows_of(page.Rows, is_first_page[c])
                            new_rows == append_rows(rows[c], data_rows, cols, max_rows)
                            taken == SubSeq(data_rows, 1, Len(new_rows) - Len(rows[c]))
                        IN  /\ Logged(c, LogEntry("get_query_results", id, size,
                                                  next_token[c], "page",
                                                  Len(page.Rows), page.NextToken, 0))
                            /\ IF \A i \in DOMAIN taken : RowFits(cols, taken[i])
                               THEN /\ columns' = [columns EXCEPT ![c] = cols]
                                    /\ rows' = [rows EXCEPT ![c] = new_rows]
                                    /\ is_first_page' = [is_first_page EXCEPT ![c] = FALSE]
                                    /\ next_token' = [next_token EXCEPT ![c] = page.NextToken]
                                    /\ pc' = [pc EXCEPT ![c] =
                                         IF fetch_done(page.NextToken, Len(new_rows), max_rows)
                                         THEN "stats" ELSE "fetch"]
                                    /\ UNCHANGED outcome
                               ELSE /\ outcome' = [outcome EXCEPT ![c] = Raise("IndexError", "")]
                                    /\ pc' = [pc EXCEPT ![c] = "done"]
                                    /\ UNCHANGED <<columns, rows, next_token, is_first_page>>
    /\ UNCHANGED <<self, request, reply, executions, args, query_execution_id, elapsed, state>>

\* lines 186-198: the statistics lookup, then the QueryResult
Statistics(c) ==
    /\ pc[c] = "stats"
    /\ LET id == execution_id(c)
       IN  \/ /\ Logged(c, LogEntry("statistics", id, 0, None,
                                    executions[id].State, 0, None, 0))
              /\ outcome' = [outcome EXCEPT ![c] = Return(
                    [columns |-> columns[c], rows |-> rows[c],
                     query_execution_id |-> id, state |-> "SUCCEEDED",
                     statistics |-> executions[id].Statistics])]
           \/ \* the lookup fails: nothing catches the error
              /\ Logged(c, LogEntry("statistics", id, 0, None, "ClientError",
                                    0, None, 0))
              /\ outcome' = [outcome EXCEPT ![c] = Raise("ClientError", "")]
    /\ pc' = [pc EXCEPT ![c] = "done"]
    /\ UNCHANGED <<self, request, reply, executions, args, query_execution_id, elapsed, state,
                   columns, rows, next_token, is_first_page>>

--------------------------------------------------------------------------
(* The table operations of AthenaClient, lines 200-218 and 254-286 *)

\* line 32: the database AthenaClient() is constructed with
DefaultDatabase == <<"d","1","1","_","s","t","i","t","c","h">>

\* an invocation of an operation of the client: op is "" for a direct call
\* of execute_query, whose arguments are in args
Request(op, query, table, database, limit, max_rows) ==
    [tool |-> "", op |-> op, query |-> query, table |-> table,
     database |-> database, limit |-> limit, max_rows |-> max_rows]
NoRequest == Request("", <<>>, <<>>, None, 0, 0)

\* the arguments of an execute_query call; enforce_limit defaults to True
ExecuteArgs(query, max_rows) ==
    [query |-> query, max_rows |-> max_rows, enforce_limit |-> TRUE]

\* every table looked up in the configured database
database_ignored(database) == self.database

\* database or self.database
database_or_default(database) ==
    IF database = None \/ database = Some(<<>>) THEN self.database
    ELSE database[1]

\* "." in full_table_name
HasDot(name) == "." \in Range(name)

\* full_table_name.split(".", 1)
SplitOnce(name) ==
    LET i == CHOOSE i \in DOMAIN name :
                 name[i] = "." /\ \A j \in 1..(i - 1) : name[j] # "."
    IN  <<SubSeq(name, 1, i - 1), SubSeq(name, i + 1, Len(name))>>

\* lines 200-203
list_tables_args(database) ==
    ExecuteArgs(<<"S","H","O","W"," ","T","A","B","L","E","S"," ","I","N"," ">> \o database_or_default(database), None)

\* lines 206-209
describe_table_args(table, database) ==
    ExecuteArgs(<<"D","E","S","C","R","I","B","E"," ">> \o database_or_default(database) \o <<".">> \o table,
                Some(500))

\* lines 212-218
describe_table_fq_args(full_table_name) ==
    LET name == Strip(full_table_name)
    IN  IF ~HasDot(name) THEN describe_table_args(name, None)
        ELSE describe_table_args(SplitOnce(name)[2], Some(SplitOnce(name)[1]))

\* lines 254-259
show_create_table_fq_args(full_table_name) ==
    LET name == Strip(full_table_name)
        full == IF ~HasDot(name) THEN self.database \o <<".">> \o name ELSE name
    IN  ExecuteArgs(<<"S","H","O","W"," ","C","R","E","A","T","E"," ","T","A","B","L","E"," ">> \o full, Some(1000))

\* lines 274-279
get_sample_data_args(table, limit, database) ==
    ExecuteArgs(<<"S","E","L","E","C","T"," ","*"," ","F","R","O","M"," ">> \o database_or_default(database) \o <<".">> \o table
                \o <<" ","L","I","M","I","T"," ">> \o IntToStr(limit), None)

\* lines 281-286
get_sample_data_fq_args(full_table_name, limit) ==
    LET name == Strip(full_table_name)
        full == IF ~HasDot(name) THEN self.database \o <<".">> \o name ELSE name
    IN  ExecuteArgs(<<"S","E","L","E","C","T"," ","*"," ","F","R","O","M"," ">> \o full \o <<" ","L","I","M","I","T"," ">> \o IntToStr(limit), None)

\* the execute_query call an operation of the client makes
operation_args(r) ==
    CASE r.op = "list_tables" -> list_tables_args(r.database)
      [] r.op = "describe_table" -> describe_table_args(r.table, r.database)
      [] r.op = "describe_table_fq" -> describe_table_fq_args(r.table)
      [] r.op = "show_create_table_fq" -> show_create_table_fq_args(r.table)
      [] r.op = "get_sample_data" ->
            get_sample_data_args(r.table, r.limit, r.database)
      [] r.op = "get_sample_data_fq" ->
            get_sample_data_fq_args(r.table, r.limit)
      [] OTHER -> [query |-> r.query, max_rows |-> Some(r.max_rows),
                   enforce_limit |-> TRUE]

\* server.py lines 95-96, 115, 133 and 163-165: what a tool passes on to
\* the client: run_query caps max_rows at 100, get_sample_data caps limit at 20
tool_operation(r) ==
    CASE r.tool = "run_query" -> [r EXCEPT !.max_rows = Min(r.max_rows, 100)]
      [] r.tool = "get_sample_data" -> [r EXCEPT !.limit = Min(r.limit, 20)]
      [] OTHER -> r

\* the tool, or the caller, invokes the operation, which builds its
\* statement and calls execute_query
Invoke(c) ==
    /\ pc[c] = "called"
    /\ request' = [request EXCEPT ![c] = tool_operation(request[c])]
    /\ args' = [args EXCEPT ![c] = operation_args(tool_operation(request[c]))]
    /\ pc' = [pc EXCEPT ![c] = "idle"]
    /\ UNCHANGED <<self, reply, executions, query_execution_id,
                   elapsed, state, columns, rows, next_token, is_first_page,
                   outcome, log>>

--------------------------------------------------------------------------
(* AthenaClient.describe_table and _normalize_describe_rows, lines 206-252 *)

\* row.get(k)
DictGet(d, k) ==
    IF \E j \in DOMAIN d : d[j][1] = k
    THEN d[CHOOSE j \in DOMAIN d : d[j][1] = k][2]
    ELSE None

\* (v or ""): the text of an optional text
OrEmpty(v) == IF v = None THEN <<>> ELSE v[1]

\* str.split(sep)
RECURSIVE Split(_, _)
Split(s, sep) ==
    IF \E i \in DOMAIN s : s[i] = sep
    THEN LET i == CHOOSE i \in DOMAIN s :
                     s[i] = sep /\ \A j \in 1..(i - 1) : s[j] # sep
         IN  <<SubSeq(s, 1, i - 1)>> \o Split(SubSeq(s, i + 1, Len(s)), sep)
    ELSE <<s>>

\* every row taken to carry a tab
has_tab_always(result_rows) == TRUE

\* lines 232-235: some row's col_name holds a tab
has_tab(result_rows) ==
    \E i \in DOMAIN result_rows :
        "\t" \in Range(OrEmpty(DictGet(result_rows[i], "col_name")))

\* lines 236-237: any(any(k for k in row.keys() if k != "col_name")): some
\* row has a key other than col_name (a key that is a non-empty text)
has_other_cols(result_rows) ==
    \E i \in DOMAIN result_rows :
        \E j \in DOMAIN result_rows[i] :
            result_rows[i][j][1] # "col_name" /\ result_rows[i][j][1] # ""

\* the parts of the name as they are, not trimmed
schema_row_untrimmed(row_data) ==
    LET raw == RStrip(OrEmpty(DictGet(row_data, "col_name")), {"\n"})
        parts == Split(raw, "\t") \o << <<>>, <<>>, <<>> >>
    IN  << <<"col_name", Some(parts[1])>>, <<"data_type", Some(parts[2])>>,
           <<"comment", Some(parts[3])>> >>

\* lines 242-251: the schema row parsed from one row's col_name
schema_row(row_data) ==
    LET raw == RStrip(OrEmpty(DictGet(row_data, "col_name")), {"\n"})
        parts == Split(raw, "\t") \o << <<>>, <<>>, <<>> >>
    IN  << <<"col_name", Some(Strip(parts[1]))>>,
           <<"data_type", Some(Strip(parts[2]))>>,
           <<"comment", Some(Strip(parts[3]))>> >>

\* lines 220-252
normalize_describe_rows(result) ==
    IF result.rows = <<>> THEN <<>>
    ELSE IF "col_name" \notin Range(result.columns) THEN result.rows
    ELSE IF ~has_tab(result.rows) \/ has_other_cols(result.rows)
    THEN result.rows
    ELSE [i \in DOMAIN result.rows |-> schema_row(result.rows[i])]

\* lines 206-210, after execute_query has returned: describe_table returns
\* the normalised rows of the QueryResult
NormalizeDescribeRows(c) ==
    /\ pc[c] = "done"
    /\ request[c].op \in {"describe_table", "describe_table_fq"}
    /\ outcome[c].kind = "return"
    /\ outcome' = [outcome EXCEPT ![c] =
                      Return(normalize_describe_rows(outcome[c].result[1]))]
    /\ pc' = [pc EXCEPT ![c] = "described"]
    /\ UNCHANGED <<self, request, reply, executions, args, query_execution_id, elapsed, state,
                   columns, rows, next_token, is_first_page, log>>

\* str(v) of a cell value
Str(v) == IF v = None THEN <<"N","o","n","e">> ELSE v[1]

\* "\n".join(lines)
RECURSIVE JoinLines(_)
JoinLines(lines) ==
    IF lines = <<>> THEN <<>>
    ELSE IF Len(lines) = 1 THEN lines[1]
    ELSE lines[1] \o <<"\n">> \o JoinLines(Tail(lines))

\* lines 263-271: the line a row of SHOW CREATE TABLE output gives
create_line(col, row_data) ==
    IF col # None /\ DictGet(row_data, col[1]) # None
    THEN Str(DictGet(row_data, col[1]))
    ELSE Str(row_data[1][2])

\* lines 260-272
create_statement(result) ==
    IF result.rows = <<>> THEN <<>>
    ELSE LET col == IF result.columns # <<>> THEN Some(result.columns[1]) ELSE None
             kept == SelectSeq(result.rows, LAMBDA r : r # <<>>)
         IN  RStrip(JoinLines([i \in DOMAIN kept |-> create_line(col, kept[i])]),
                    Whitespace)

\* line 204: row.get("tab_name", "")
tab_name(row_data) ==
    IF \E j \in DOMAIN row_data : row_data[j][1] = "tab_name"
    THEN DictGet(row_data, "tab_name")
    ELSE Some(<<>>)

\* lines 204 and 260-272: list_tables and show_create_table_fq return what
\* they make of the QueryResult
OperationReturn(c) ==
    /\ pc[c] = "done"
    /\ request[c].op \in {"list_tables", "show_create_table_fq"}
    /\ outcome[c].kind = "return"
    /\ outcome' = [outcome EXCEPT ![c] = Return(
          IF request[c].op = "list_tables"
          THEN [i \in DOMAIN outcome[c].result[1].rows |->
                   tab_name(outcome[c].result[1].rows[i])]
          ELSE create_statement(outcome[c].result[1]))]
    /\ pc' = [pc EXCEPT ![c] = "returned"]
    /\ UNCHANGED <<self, request, reply, executions, args, query_execution_id,
                   elapsed, state, columns, rows, next_token, is_first_page,
                   log>>

--------------------------------------------------------------------------
(* The tools of server.py, lines 41-167. A text is the sequence of its
   lines, a line the sequence of its parts. *)

\* a tool invoked with its arguments
ToolRequest(tool, query, table, database, limit, max_rows) ==
    [tool |-> tool,
     op |-> IF tool = "run_query" THEN "" ELSE tool,
     query |-> query, table |-> table, database |-> database,
     limit |-> limit, max_rows |-> max_rows]

\* the exception leaves the tool
exception_propagates(tool, msg) == None

\* server.py lines 98-99, 117-118, 145-146, 166-167: except Exception as e
error_text(tool, msg) ==
    Some(<< << CASE tool = "run_query" -> "Query failed: "
                 [] tool = "list_tables" -> "Failed to list tables: "
                 [] tool = "describe_table" -> "Failed to describe table: "
                 [] tool = "get_sample_data" -> "Failed to get sample data: ",
               msg >> >>)

\* server.py line 67: str(row.get(col, "NULL")) for each column
row_values(cols, row_data) ==
    [i \in DOMAIN cols |->
        IF \E j \in DOMAIN row_data : row_data[j][1] = cols[i]
        THEN (IF DictGet(row_data, cols[i]) = None THEN "None"
              ELSE DictGet(row_data, cols[i])[1])
        ELSE "NULL"]

\* server.py lines 41-74
format_query_result(result, max_rows) ==
    LET shown == SubSeq(result.rows, 1, Min(Len(result.rows), max_rows))
    IN  << <<"Query ID: ", result.query_execution_id>>,
           <<"Columns: ", result.columns>>,
           <<"Total rows: ", Len(result.rows)>> >>
        \o (IF result.statistics # None
            THEN << <<"Data scanned: ", result.statistics[1]>>,
                    <<"Execution time: ", result.statistics[1]>> >>
            ELSE <<>>)
        \o << <<>> >>
        \o (IF result.rows # <<>>
            THEN << <<"| ", result.columns, " |">>,
                    <<"| ", [i \in DOMAIN result.columns |-> "---"], " |">> >>
                 \o [i \in DOMAIN shown |->
                       <<"| ", row_values(result.columns, shown[i]), " |">>]
                 \o (IF Len(result.rows) > max_rows
                     THEN << <<"... and ", Len(result.rows) - max_rows,
                               " more rows">> >>
                     ELSE <<>>)
            ELSE <<>>)

\* server.py line 116
format_tables(database, tables) ==
    << <<"Tables in ", database, ":">> >>
    \o [i \in DOMAIN tables |-> <<"  - ", Str(tables[i])>>]

\* server.py lines 139-143: the rows of the schema that are shown
shown_in_schema(row_data) ==
    LET col_name == IF \E j \in DOMAIN row_data : row_data[j][1] = "col_name"
                    THEN DictGet(row_data, "col_name") ELSE Some(<<>>)
    IN  /\ col_name # None
        /\ col_name # Some(<<>>)
        /\ Head(col_name[1]) # "#"

\* server.py lines 134-144
format_schema(database, table, schema) ==
    LET shown == SelectSeq(schema, shown_in_schema)
    IN  << <<"Schema for ", database, ".", table, ":">>, <<>>,
           <<"| Column | Type |">>, <<"| --- | --- |">> >>
        \o [i \in DOMAIN shown |->
              <<"| ", DictGet(shown[i], "col_name")[1], " | ",
                IF \E j \in DOMAIN shown[i] : shown[i][j][1] = "data_type"
                THEN Str(DictGet(shown[i], "data_type")) ELSE <<>>,
                " |">>]

\* the text a tool makes of what the operation returned
result_text(r, result) ==
    CASE r.tool = "run_query" -> format_query_result(result, r.max_rows)
      [] r.tool = "get_sample_data" -> format_query_result(result, r.limit)
      [] r.tool = "list_tables" -> format_tables(r.database[1], result)
      [] r.tool = "describe_table" ->
            format_schema(r.database[1], r.table, result)

\* the operation of the tool has returned or raised
OperationOver(c) ==
    \/ pc[c] = "done" /\ outcome[c].kind = "raise"
    \/ pc[c] = "done" /\ request[c].tool \in {"run_query", "get_sample_data"}
    \/ pc[c] = "described"
    \/ pc[c] = "returned"

\* server.py lines 94-99, 113-118, 132-146, 163-167: the body of a tool
ToolReply(c) ==
    /\ request[c].tool # ""
    /\ OperationOver(c)
    /\ reply' = [reply EXCEPT ![c] =
          IF outcome[c].kind = "raise"
          THEN error_text(request[c].tool, outcome[c].msg)
          ELSE Some(result_text(request[c], outcome[c].result[1]))]
    /\ pc' = [pc EXCEPT ![c] = "replied"]
    /\ UNCHANGED <<self, request, executions, args, query_execution_id,
                   elapsed, state, columns, rows, next_token, is_first_page,
                   outcome, log>>

--------------------------------------------------------------------------
(* The specifications *)

\* the configurations AthenaClient.__init__ is given
Configs ==
    [timeout : 0..MaxTimeout, poll_interval : 1..MaxInterval,
     max_results : 1..MaxPageSize, database : {DefaultDatabase}]

NoArgs == [query |-> <<>>, max_rows |-> None, enforce_limit |-> FALSE]

\* a client has been constructed with a configuration in cfgs, and the calls
\* of `callers` are about to be made, each with arguments in `arguments`
InitWith(cfgs, callers, arguments) ==
    /\ self \in cfgs
    /\ executions = <<>>
    /\ args \in [Calls -> arguments \cup {NoArgs}]
    /\ \A c \in Calls : args[c] = NoArgs <=> c \notin callers
    /\ pc = [c \in Calls |-> IF c \in callers THEN "idle" ELSE "absent"]
    /\ query_execution_id = [c \in Calls |-> 0]
    /\ elapsed = [c \in Calls |-> 0]
    /\ state = [c \in Calls |-> ""]
    /\ columns = [c \in Calls |-> <<>>]
    /\ rows = [c \in Calls |-> <<>>]
    /\ next_token = [c \in Calls |-> None]
    /\ is_first_page = [c \in Calls |-> TRUE]
    /\ outcome = [c \in Calls |-> NoOutcome]
    /\ request = [c \in Calls |-> NoRequest]
    /\ reply = [c \in Calls |-> None]
    /\ log = [c \in Calls |-> <<>>]

\* one call of execute_query, under any configuration
Init == InitWith(Configs, {1}, Arguments)

\* two calls of execute_query on one client, running concurrently
TwoConfigs ==
    {[timeout |-> 1, poll_interval |-> 1, max_results |-> MaxPageSize,
      database |-> DefaultDatabase]}
TwoArguments ==
    [query : {SelectOne}, max_rows : {Some(1)}, enforce_limit : {FALSE}]
InitTwo == InitWith(TwoConfigs, Calls, TwoArguments)

Step(c) ==
    \/ ExecuteQuery(c)
    \/ TimePasses(c)
    \/ DeadlineCheck(c)
    \/ Poll(c)
    \/ Sleep(c)
    \/ FailureReason(c)
    \/ BeginFetch(c)
    \/ FetchPage(c)
    \/ Statistics(c)

Next ==
    \/ \E c \in Calls : Step(c)
    \/ \E e \in DOMAIN executions : RemoteFinish(e)

Spec == Init /\ [][Next]_vars

SpecTwo == InitTwo /\ [][Next]_vars

\* lines 117-131: the loop of the poller goes on: a call that can check the
\* deadline, poll or sleep does so in the end
PollerStep(c) == DeadlineCheck(c) \/ Poll(c) \/ Sleep(c)
SpecLive == Init /\ [][Next]_vars /\ \A c \in Calls : WF_vars(PollerStep(c))

\* the SQL texts of callers: whitespace, a statement with its leading
\* keyword, statement terminators, whitespace
Leads == {<<>>, <<" ">>, <<"\n", "\t">>}
Statements ==
    { [text |-> <<"S","E","L","E","C","T"," ","1">>, keyword |-> "SELECT"],
      [text |-> <<"s","h","o","w"," ","t","a","b","l","e","s">>, keyword |-> "SHOW"],
      [text |-> <<"D","e","s","c","r","i","b","e"," ","t">>, keyword |-> "DESCRIBE"],
      [text |-> <<"E","X","P","L","A","I","N"," ","x">>, keyword |-> "EXPLAIN"],
      [text |-> <<"M","S","C","K"," ","x">>, keyword |-> "MSCK"],
      [text |-> <<"U","S","E"," ","d">>, keyword |-> "USE"],
      [text |-> <<"S","E","T"," ","x">>, keyword |-> "SET"],
      [text |-> <<"C","R","E","A","T","E"," ","x">>, keyword |-> "CREATE"],
      [text |-> <<"d","r","o","p"," ","x">>, keyword |-> "DROP"],
      [text |-> <<"A","L","T","E","R"," ","x">>, keyword |-> "ALTER"],
      [text |-> <<"I","N","S","E","R","T"," ","x">>, keyword |-> "INSERT"],
      [text |-> <<"U","P","D","A","T","E"," ","x">>, keyword |-> "UPDATE"],
      [text |-> <<"D","E","L","E","T","E"," ","x">>, keyword |-> "DELETE"],
      [text |-> <<"W","I","T","H"," ","t">>, keyword |-> "WITH"],
      [text |-> <<"S","E","T","U","P">>, keyword |-> "SETUP"],
      [text |-> <<"V","A","L","U","E","S"," ","1">>, keyword |-> "VALUES"],
      [text |-> <<"S","H","O","W">>, keyword |-> "SHOW"] }
Terminators == {<<>>, <<";">>, <<";", ";">>, <<";", " ", ";">>}
Trails == {<<>>, <<" ">>, <<"\n">>}
QueryParts ==
    [lead : Leads, statement : Statements, terminator : Terminators,
     trail : Trails]
QueryText(p) == p.lead \o p.statement.text \o p.terminator \o p.trail

\* the submission alone, for every such text, with and without a row cap
SubmitConfigs ==
    {[timeout |-> 1, poll_interval |-> 1, max_results |-> 1,
      database |-> DefaultDatabase]}
SubmitCaps == {None, Some(0), Some(1), Some(12)}
SubmitArguments ==
    [query : {QueryText(p) : p \in QueryParts}, max_rows : SubmitCaps,
     enforce_limit : BOOLEAN]
InitSubmit == InitWith(SubmitConfigs, {1}, SubmitArguments)
NextSubmit == \E c \in Calls : ExecuteQuery(c)
SpecSubmit == InitSubmit /\ [][NextSubmit]_vars

\* the QueryResults execute_query may hand to _normalize_describe_rows: at
\* most MaxDescribeRows row records, of one column col_name, of the three
\* columns of a schema, or of another column
MaxDescribeRows == 2
NameRows ==
    { <<<<"col_name", None>>>>,
      <<<<"col_name", Some(<<"i","d","\t","b","i","g","i","n","t","\t","p","r","i","m","a","r","y"," ","k","e","y">>)>>>>,
      <<<<"col_name", Some(<<"n","a","m","e","\t","v","a","r","c","h","a","r","\t">>)>>>>,
      <<<<"col_name", Some(<<"i","d">>)>>>>,
      <<<<"col_name", Some(<<" ","x"," ","\t"," ","i","n","t","\n">>)>>>>,
      <<<<"col_name", Some(<<"a","\t","b","\t","c","\t","d">>)>>>>,
      <<<<"col_name", Some(<<>>)>>>> }
SchemaRows ==
    { <<<<"col_name", Some(<<"i","d","\t","b","i","g","i","n","t","\t">>)>>>>,
      <<<<"col_name", Some(<<"i","d","\t","b","i","g","i","n","t","\t">>)>>, <<"data_type", None>>, <<"comment", None>>>>,
      <<<<"col_name", Some(<<"i","d","\t","b","i","g","i","n","t","\t">>)>>, <<"data_type", Some(<<>>)>>, <<"comment", Some(<<>>)>>>>,
      <<<<"col_name", Some(<<"i","d","\t","x">>)>>, <<"data_type", Some(<<"b","i","g","i","n","t">>)>>, <<"comment", Some(<<"p","k">>)>>>>,
      <<<<"col_name", Some(<<"i","d">>)>>, <<"data_type", Some(<<"b","i","g","i","n","t">>)>>, <<"comment", None>>>>,
      <<<<"col_name", Some(<<"i","d">>)>>, <<"data_type", Some(<<"b","i","g","i","n","t">>)>>>> }
OtherRows ==
    { <<<<"tab_name", Some(<<"t","\t","x">>)>>>>,
      <<<<"tab_name", None>>>> }
SeqsUpTo(set, n) == UNION {[1..k -> set] : k \in 0..n}
DescribeResults ==
    UNION { [columns : {<<"col_name">>}, rows : SeqsUpTo(NameRows, MaxDescribeRows)],
            [columns : {<<"col_name", "data_type", "comment">>},
             rows : SeqsUpTo(SchemaRows, MaxDescribeRows)],
            [columns : {<<"tab_name">>}, rows : SeqsUpTo(OtherRows, MaxDescribeRows)] }

\* describe_table at the point where its execute_query has returned
InitDescribe ==
    /\ self \in SubmitConfigs
    /\ executions = <<[NewExecution(DescribeT) EXCEPT !.State = "SUCCEEDED"]>>
    /\ args = [c \in Calls |-> IF c = 1
                 THEN [query |-> DescribeT, max_rows |-> Some(500),
                       enforce_limit |-> TRUE]
                 ELSE NoArgs]
    /\ pc = [c \in Calls |-> IF c = 1 THEN "done" ELSE "absent"]
    /\ query_execution_id = [c \in Calls |-> IF c = 1 THEN 1 ELSE 0]
    /\ elapsed = [c \in Calls |-> 0]
    /\ state = [c \in Calls |-> IF c = 1 THEN "SUCCEEDED" ELSE ""]
    /\ \E r \in DescribeResults :
          /\ columns = [c \in Calls |-> IF c = 1 THEN r.columns ELSE <<>>]
          /\ rows = [c \in Calls |-> IF c = 1 THEN r.rows ELSE <<>>]
          /\ outcome = [c \in Calls |-> IF c = 1
                          THEN Return([columns |-> r.columns, rows |-> r.rows,
                                       query_execution_id |-> 1,
                                       state |-> "SUCCEEDED",
                                       statistics |-> None])
                          ELSE NoOutcome]
    /\ next_token = [c \in Calls |-> None]
    /\ is_first_page = [c \in Calls |-> c # 1]
    /\ request = [c \in Calls |-> IF c = 1
                    THEN Request("describe_table", <<>>, <<"t">>,
                                 Some(<<"d">>), 0, 0)
                    ELSE NoRequest]
    /\ reply = [c \in Calls |-> None]
    /\ log = [c \in Calls |-> <<>>]
\* one call of a table operation with a table name as database.table or as
\* a bare table, with whitespace around it or without
TableNames == {<<"t">>, <<"d","b",".","t">>, <<" ","d","b",".","t","\n">>, <<" ","t"," ">>}
FacadeRequests ==
    {Request(op, <<>>, name, None, 3, 0) :
        op \in {"describe_table_fq", "show_create_table_fq", "get_sample_data_fq"},
        name \in TableNames}
InitOperation(cfgs, callers, requests) ==
    /\ self \in cfgs
    /\ executions = <<>>
    /\ args = [c \in Calls |-> NoArgs]
    /\ pc = [c \in Calls |-> IF c \in callers THEN "called" ELSE "absent"]
    /\ query_execution_id = [c \in Calls |-> 0]
    /\ elapsed = [c \in Calls |-> 0]
    /\ state = [c \in Calls |-> ""]
    /\ columns = [c \in Calls |-> <<>>]
    /\ rows = [c \in Calls |-> <<>>]
    /\ next_token = [c \in Calls |-> None]
    /\ is_first_page = [c \in Calls |-> TRUE]
    /\ outcome = [c \in Calls |-> NoOutcome]
    /\ request \in [Calls -> requests \cup {NoRequest}]
    /\ \A c \in Calls : request[c] = NoRequest <=> c \notin callers
    /\ reply = [c \in Calls |-> None]
    /\ log = [c \in Calls |-> <<>>]
OperationStep(c) ==
    \/ Invoke(c)
    \/ NormalizeDescribeRows(c)
    \/ OperationReturn(c)
NextOperation ==
    \/ Next
    \/ \E c \in Calls : OperationStep(c)
OperationConfigs ==
    [timeout : {1}, poll_interval : {1}, max_results : 1..MaxPageSize,
     database : {DefaultDatabase}]
InitFacade == InitOperation(OperationConfigs, {1}, FacadeRequests)
SpecFacade == InitFacade /\ [][NextOperation]_vars

\* one call of a tool of the server
ToolRequests ==
    {ToolRequest("run_query", SelectOne, <<>>, None, 0, m) : m \in {0, 2, 150}}
    \cup {ToolRequest("list_tables", <<>>, <<>>, Some(DefaultDatabase), 0, 0),
          ToolRequest("describe_table", <<>>, <<"t">>, Some(DefaultDatabase), 0, 0)}
    \cup {ToolRequest("get_sample_data", <<>>, <<"t">>, Some(DefaultDatabase), n, 0) :
             n \in {1, 25}}
NextTools ==
    \/ NextOperation
    \/ \E c \in Calls : ToolReply(c)
InitTools == InitOperation(OperationConfigs, {1}, ToolRequests)
SpecTools == InitTools /\ [][NextTools]_vars

\* describe_table called twice for one table
TwiceRequests == {Request("describe_table", <<>>, <<"t">>, None, 0, 0)}
InitTwice == InitOperation(TwoConfigs, Calls, TwiceRequests)
NextTwice ==
    \/ Next
    \/ \E c \in Calls : Invoke(c) \/ NormalizeDescribeRows(c)
SpecTwice == InitTwice /\ [][NextTwice]_vars

NextDescribe == \E c \in Calls : NormalizeDescribeRows(c)
SpecDescribe == InitDescribe /\ [][NextDescribe]_vars

\* one call whose result table has several columns
FetchConfigs ==
    [timeout : {1}, poll_interval : {1}, max_results : 1..MaxPageSize,
     database : {DefaultDatabase}]
FetchArguments ==
    [query : {SelectPair, SelectJoin, DescribeT}, max_rows : MaxRowsArgs,
     enforce_limit : {FALSE}]
InitFetch == InitWith(FetchConfigs, {1}, FetchArguments)
SpecFetch == InitFetch /\ [][Next]_vars

--------------------------------------------------------------------------
(* What the claims speak of *)

Polls(c) == Entries(c, "poll")
Checks(c) == Entries(c, "deadline_check")
Sleeps(c) == Entries(c, "sleep")
Pages(c) == Entries(c, "get_query_results")
Submissions(c) == Entries(c, "start_query_execution")

\* the positions in call c's log of the entries with an op in ops
Positions(c, ops) == {i \in DOMAIN log[c] : log[c][i].op \in ops}

\* every position of as comes before every position of bs
AllBefore(as, bs) == \A i \in as, j \in bs : i < j

\* C1: in execute_query the remote operations come in the order submit,
\* status polls, result-page fetches: a status poll is issued only after the
\* submission returned this call's execution id, and a result page is
\* requested only for an execution id for which an earlier poll of this call
\* reported SUCCEEDED.
C1_SubmitPollFetchOrder ==
    \A c \in Calls :
        /\ AllBefore(Positions(c, {"start_query_execution"}),
                     Positions(c, {"deadline_check", "poll"}))
        /\ AllBefore(Positions(c, {"poll"}), Positions(c, {"get_query_results"}))
        /\ \A i \in Positions(c, {"poll"}) :
              \E j \in 1..(i - 1) :
                  /\ log[c][j].op = "start_query_execution"
                  /\ log[c][j].got = "QueryExecutionId"
                  /\ log[c][j].id = log[c][i].id
        /\ \A i \in Positions(c, {"get_query_results"}) :
              \E j \in 1..(i - 1) :
                  /\ log[c][j].op = "poll"
                  /\ log[c][j].got = "SUCCEEDED"
                  /\ log[c][j].id = log[c][i].id

\* a call that polled while the execution ran, saw it succeed and fetched
C1_Witness ==
    \E c \in Calls :
        /\ Len(Polls(c)) >= 2
        /\ Polls(c)[1].got = "RUNNING"
        /\ Len(Pages(c)) >= 2
        /\ Pages(c)[1].got = "page"

\* C2: every call of execute_query issues exactly one start_query_execution
\* request whatever its outcome, and every request that is answered creates
\* an execution of its own: two calls never share an execution id, also
\* when their SQL is identical.
C2_OneSubmissionPerCall ==
    /\ \A c \in Calls :
          Len(Submissions(c)) = (IF pc[c] \in {"idle", "absent"} THEN 0 ELSE 1)
    /\ Len(executions) =
          Cardinality({c \in Calls : query_execution_id[c] # 0})
    /\ \A c, d \in Calls :
          (c # d /\ query_execution_id[c] # 0 /\ query_execution_id[d] # 0)
              => query_execution_id[c] # query_execution_id[d]

\* two calls with the same SQL ended differently, each with its own execution
C2_Witness ==
    /\ pc[1] = "done" /\ pc[2] = "done"
    /\ outcome[1].exc = "TimeoutError"
    /\ outcome[2].kind = "return"
    /\ Len(executions) = 2
    /\ executions[1].QueryString = executions[2].QueryString
    /\ query_execution_id[1] # query_execution_id[2]

\* the poller of call c has returned (and not raised)
PollerReturned(c) == pc[c] \in {"waited", "fetch", "stats"} \/
                     (pc[c] = "done" /\ outcome[c].exc \notin {"TimeoutError"}
                                     /\ Polls(c) # <<>>)

\* C3: the poller returns a state only if its most recent poll reported
\* exactly that state and it is SUCCEEDED, FAILED or CANCELLED; SUCCEEDED
\* only when the service holds the execution as SUCCEEDED; it raises for
\* no terminal state; no poll follows a poll that reported a terminal state.
C3_PollerReturnsLastTerminalState ==
    \A c \in Calls :
        /\ PollerReturned(c) =>
              /\ Polls(c) # <<>>
              /\ state[c] = Polls(c)[Len(Polls(c))].got
              /\ state[c] \in {"SUCCEEDED", "FAILED", "CANCELLED"}
              /\ state[c] = executions[query_execution_id[c]].State
        /\ \A i \in 1..(Len(Polls(c)) - 1) :
              Polls(c)[i].got \notin {"SUCCEEDED", "FAILED", "CANCELLED"}
        /\ outcome[c].exc = "TimeoutError" =>
              \A i \in DOMAIN Polls(c) :
                  Polls(c)[i].got \notin {"SUCCEEDED", "FAILED", "CANCELLED"}

\* the poller returned CANCELLED as a value, after a poll that saw RUNNING
C3_Witness ==
    \E c \in Calls :
        /\ pc[c] = "waited"
        /\ state[c] = "CANCELLED"
        /\ Len(Polls(c)) = 2

AllRunning(c) == \A i \in DOMAIN Polls(c) : Polls(c)[i].got = "RUNNING"

\* C5 as stated: for an execution that is reported RUNNING at every poll,
\* with timeout 2 and poll interval 1, the deadline check made when at least
\* the timeout has elapsed raises TimeoutError, and no poll follows it.
C5_Original ==
    \A c \in Calls :
        (AllRunning(c) /\ self.timeout = 2 /\ self.poll_interval = 1) =>
            \A i \in DOMAIN Checks(c) :
                Checks(c)[i].elapsed >= self.timeout =>
                    Checks(c)[i].got = "TimeoutError"

\* C5 (amended): for an execution that is reported RUNNING at every poll, a
\* deadline check raises TimeoutError exactly when the elapsed time it reads
\* is more than the timeout (a check that reads exactly the timeout passes
\* and one more poll is issued); the raising check is the last thing the
\* call does, the call ends with TimeoutError and with nothing else, after
\* at most timeout / poll_interval + 2 checks.
C5_TimeoutWhenElapsedExceeds ==
    \A c \in Calls :
        AllRunning(c) =>
            /\ \A i \in DOMAIN Checks(c) :
                  Checks(c)[i].got = "TimeoutError" <=>
                      Checks(c)[i].elapsed > self.timeout
            /\ \A i \in Positions(c, {"deadline_check"}) :
                  log[c][i].got = "TimeoutError" => i = Len(log[c])
            /\ (pc[c] = "done" /\ query_execution_id[c] # 0) =>
                  (outcome[c].kind = "raise" /\ outcome[c].exc = "TimeoutError")
            /\ Len(Checks(c)) <= (self.timeout \div self.poll_interval) + 2

\* timeout 2, interval 1: the checks at 0, 1 and 2 passed, the next raised
C5_Witness ==
    \E c \in Calls :
        /\ self.timeout = 2 /\ self.poll_interval = 1
        /\ AllRunning(c)
        /\ Len(Polls(c)) = 3
        /\ Checks(c)[3].elapsed = 2
        /\ outcome[c].exc = "TimeoutError"

\* C6 as stated: when the service reports RUNNING on the first k polls and
\* would report SUCCEEDED on poll k+1, and k * poll_interval <= timeout, the
\* deadline check before poll k+1 does not find the deadline exceeded (so
\* that the poller returns SUCCEEDED and raises no TimeoutError).
C6_Original ==
    \A c \in Calls :
        ( /\ pc[c] = "check"
          /\ Len(Polls(c)) >= 1
          /\ AllRunning(c)
          /\ executions[query_execution_id[c]].State = "SUCCEEDED"
          /\ Len(Polls(c)) * self.poll_interval <= self.timeout )
        => elapsed[c] <= self.timeout

\* C6 (amended): a deadline check raises only when the elapsed time it reads
\* is more than the timeout; and when the poller returns SUCCEEDED on poll
\* k+1, the k polls before reported RUNNING, it slept k times, made k+1
\* deadline checks that each read an elapsed time of at most the timeout,
\* at least k * poll_interval has elapsed and no TimeoutError is raised.
C6_SucceededAfterKPolls ==
    \A c \in Calls :
        /\ \A i \in DOMAIN Checks(c) :
              Checks(c)[i].elapsed <= self.timeout => Checks(c)[i].got = "ok"
        /\ (PollerReturned(c) /\ state[c] = "SUCCEEDED") =>
              LET k == Len(Polls(c)) - 1
              IN  /\ \A i \in 1..k : Polls(c)[i].got = "RUNNING"
                  /\ Polls(c)[k + 1].got = "SUCCEEDED"
                  /\ Len(Sleeps(c)) = k
                  /\ Len(Checks(c)) = k + 1
                  /\ \A i \in 1..(k + 1) :
                        /\ Checks(c)[i].got = "ok"
                        /\ Checks(c)[i].elapsed <= self.timeout
                        /\ Checks(c)[i].elapsed >= (i - 1) * self.poll_interval
                  /\ elapsed[c] >= k * self.poll_interval
                  /\ outcome[c].exc # "TimeoutError"

\* RUNNING for 3 polls, then SUCCEEDED, interval 1, with the timeout just met
C6_Witness ==
    \E c \in Calls :
        /\ self.poll_interval = 1 /\ self.timeout = 3
        /\ pc[c] = "waited"
        /\ state[c] = "SUCCEEDED"
        /\ Len(Polls(c)) = 4
        /\ elapsed[c] = 3

\* C7: when the poller raises TimeoutError, execute_query ends with
\* TimeoutError (not the RuntimeError of a remote failure) and the raising
\* check is the last thing the call does: no failure-reason lookup, no
\* result-page request, no statistics lookup, no stop request follows.
C7_TimeoutPropagates ==
    \A c \in Calls :
        \A i \in Positions(c, {"deadline_check"}) :
            log[c][i].got = "TimeoutError" =>
                /\ pc[c] = "done"
                /\ outcome[c].kind = "raise"
                /\ outcome[c].exc = "TimeoutError"
                /\ i = Len(log[c])
                /\ Positions(c, {"reason", "get_query_results", "statistics",
                                 "stop_query_execution"}) = {}

\* the call timed out and the execution is still running at the service
C7_Witness ==
    \E c \in Calls :
        /\ pc[c] = "done"
        /\ outcome[c].exc = "TimeoutError"
        /\ Len(Polls(c)) >= 1
        /\ executions[query_execution_id[c]].State = "RUNNING"

\* the number of data rows the service holds for call c's execution
Available(c) == Len(executions[query_execution_id[c]].Rows) - 1

\* the record of the i-th data row of the service's result
ExpectedRow(i) == << <<"c1", Some("r" \o ToString(i))>> >>

\* the record the header row would give
HeaderRecord == << <<"c1", Some("c1")>> >>

\* C8: every fetch that returns, made with a cap N while the service holds
\* at least N data rows, returns exactly N row records: the first N data
\* rows in service order, the header row not among them, however the
\* service splits the rows into pages.
C8_CappedFetchReturnsFirstN ==
    \A c \in Calls :
        ( /\ outcome[c].kind = "return"
          /\ args[c].max_rows # None
          /\ Available(c) >= args[c].max_rows[1] )
        => LET got == outcome[c].result[1].rows
               N == args[c].max_rows[1]
           IN  /\ Len(got) = N
               /\ \A i \in 1..N : got[i] = ExpectedRow(i)
               /\ \A i \in DOMAIN got : got[i] # HeaderRecord

\* a cap of 2 on 3 data rows, over several pages, one shorter than asked for
C8_Witness ==
    \E c \in Calls :
        /\ outcome[c].kind = "return"
        /\ args[c].max_rows = Some(2)
        /\ Available(c) = 3
        /\ Len(Pages(c)) >= 2
        /\ \E i \in DOMAIN Pages(c) : Pages(c)[i].n < Pages(c)[i].MaxResults
        /\ Len(outcome[c].result[1].rows) = 2

\* C9: a fetch without a cap asks for max_results rows at every page
\* request, goes on while the last page carried a continuation token, stops
\* at the first page without one, and then holds all the data rows of the
\* service, in service order.
C9_UncappedFetchReturnsAll ==
    \A c \in Calls :
        (pc[c] # "absent" /\ args[c].max_rows = None) =>
            /\ \A i \in DOMAIN Pages(c) :
                  Pages(c)[i].MaxResults = self.max_results
            /\ \A i \in 1..(Len(Pages(c)) - 1) :
                  Pages(c)[i].got = "page" /\ Pages(c)[i].next # None
            /\ (pc[c] = "fetch" /\ Pages(c) # <<>>) =>
                  Pages(c)[Len(Pages(c))].next # None
            /\ (pc[c] = "stats" \/ outcome[c].kind = "return") =>
                  /\ Pages(c) # <<>>
                  /\ Pages(c)[Len(Pages(c))].got = "page"
                  /\ Pages(c)[Len(Pages(c))].next = None
                  /\ Len(rows[c]) = Available(c)
                  /\ \A i \in DOMAIN rows[c] : rows[c][i] = ExpectedRow(i)
            /\ outcome[c].kind = "return" =>
                  outcome[c].result[1].rows = rows[c]

\* 3 data rows fetched without a cap over at least 3 pages
C9_Witness ==
    \E c \in Calls :
        /\ outcome[c].kind = "return"
        /\ args[c].max_rows = None
        /\ Len(outcome[c].result[1].rows) = 3
        /\ Len(Pages(c)) >= 3

\* C10: with a row cap N >= 0, _fetch_results never holds more than N row
\* records (rows only grows, so this covers every point inside a page's row
\* loop), and returns at most N, also when a page holds more rows than
\* were asked for.
C10_RowsNeverExceedCap ==
    \A c \in Calls :
        args[c].max_rows # None =>
            /\ Len(rows[c]) <= args[c].max_rows[1]
            /\ outcome[c].kind = "return" =>
                  Len(outcome[c].result[1].rows) <= args[c].max_rows[1]

\* a page held more rows than asked for and the fetch returned the cap
C10_Witness ==
    \E c \in Calls :
        /\ outcome[c].kind = "return"
        /\ args[c].max_rows # None
        /\ \E i \in DOMAIN Pages(c) : Pages(c)[i].n > Pages(c)[i].MaxResults
        /\ Len(outcome[c].result[1].rows) = args[c].max_rows[1]
        /\ args[c].max_rows[1] >= 1

\* the keys of a row record, in order
Keys(row_data) == [j \in DOMAIN row_data |-> row_data[j][1]]

\* C11: every row record of a returned QueryResult has as its keys exactly
\* the declared columns, in the declared order, a cell without a text giving
\* its key the value null; this holds too when a service row carries fewer
\* cells than there are columns and when two columns share a label.
C11_RowKeysAreDeclaredColumns ==
    \A c \in Calls :
        outcome[c].kind = "return" =>
            \A i \in DOMAIN outcome[c].result[1].rows :
                Keys(outcome[c].result[1].rows[i]) = outcome[c].result[1].columns

\* the number of service rows the pages answered to call c have carried
RECURSIVE RowsIn(_)
RowsIn(entries) ==
    IF entries = <<>> THEN 0
    ELSE (IF Head(entries).got = "page" THEN Head(entries).n ELSE 0)
         + RowsIn(Tail(entries))
Delivered(c) == RowsIn(Pages(c))

\* C12: in a fetch that has been answered at least one page, exactly one
\* service row is discarded as the header, the first row of the first page:
\* the row records held are the data rows in service order with no other row
\* left out, the header is not among them and does not count toward the cap,
\* and the first row of every later page is kept.
C12_OnlyFirstRowIsHeader ==
    \A c \in Calls :
        Delivered(c) >= 1 =>
            /\ Len(rows[c]) = IF args[c].max_rows = None THEN Delivered(c) - 1
                              ELSE Min(args[c].max_rows[1], Delivered(c) - 1)
            /\ \A i \in DOMAIN rows[c] :
                  rows[c][i] = ExpectedRow(i) /\ rows[c][i] # HeaderRecord

\* an uncapped fetch returned after three pages that carried rows
C12_Witness ==
    \E c \in Calls :
        /\ outcome[c].kind = "return"
        /\ args[c].max_rows = None
        /\ Len(Pages(c)) >= 3
        /\ \A i \in 1..3 : Pages(c)[i].n >= 1
        /\ Len(outcome[c].result[1].rows) = Delivered(c) - 1

\* the statistics lookup of call c was made and failed
StatisticsFailed(c) ==
    \E i \in DOMAIN log[c] :
        log[c][i].op = "statistics" /\ log[c][i].got = "ClientError"

\* C13: the statistics lookup after pagination is best-effort: when it
\* fails, _fetch_results still returns a QueryResult, its statistics absent,
\* and no error reaches the caller.
C13_StatisticsBestEffort ==
    \A c \in Calls :
        StatisticsFailed(c) =>
            /\ outcome[c].kind = "return"
            /\ outcome[c].result[1].statistics = None

\* the names of the statements that are never wrapped
NonWrappableNames ==
    {"SHOW", "DESCRIBE", "EXPLAIN", "MSCK", "USE", "SET", "CREATE", "DROP",
     "ALTER", "INSERT", "UPDATE", "DELETE"}

\* call c has submitted its statement
Submitted(c) == query_execution_id[c] # 0

\* the SQL text the service received from call c
SubmittedSQL(c) == executions[query_execution_id[c]].QueryString

\* C14: with a row cap and limit enforcement on, a statement whose leading
\* keyword (ignoring case, after leading whitespace) is one of SHOW,
\* DESCRIBE, EXPLAIN, MSCK, USE, SET, CREATE, DROP, ALTER, INSERT, UPDATE,
\* DELETE is submitted as the caller's text, unchanged character for
\* character.
C14_NonWrappableSubmittedUnchanged ==
    \A c \in Calls :
        ( /\ Submitted(c)
          /\ args[c].enforce_limit
          /\ args[c].max_rows # None
          /\ \E p \in QueryParts :
                /\ args[c].query = QueryText(p)
                /\ p.statement.keyword \in NonWrappableNames )
        => SubmittedSQL(c) = args[c].query

\* the decimal text of the caps
CapTexts == {<<1, <<"1">> >>, <<12, <<"1", "2">> >>}

\* C15: with limit enforcement on and a positive cap N, a wrappable
\* statement q is submitted as "SELECT * FROM (\n<q>\n) AS _q\nLIMIT N",
\* <q> being the caller's text without its surrounding whitespace and its
\* trailing terminator.
C15_WrappableSubmittedWrapped ==
    \A c \in Calls :
        \A p \in QueryParts, cap \in CapTexts :
            ( /\ Submitted(c)
              /\ args[c].enforce_limit
              /\ args[c].max_rows = Some(cap[1])
              /\ args[c].query = QueryText(p)
              /\ p.terminator \in {<<>>, <<";">>}
              /\ p.statement.keyword \notin NonWrappableNames )
            => SubmittedSQL(c) =
                  <<"S","E","L","E","C","T"," ","*"," ","F","R","O","M"," ","(","\n">>
                  \o p.statement.text
                  \o <<"\n",")"," ","A","S"," ","_","q","\n","L","I","M","I","T"," ">>
                  \o cap[2]

\* "SELECT 1" with a cap of 1, and a text with whitespace and a terminator
\* around a statement, have been submitted wrapped
C15_Witness ==
    \E c \in Calls :
        /\ Submitted(c)
        /\ args[c].enforce_limit
        /\ \/ /\ args[c].query = <<"S","E","L","E","C","T"," ","1">>
              /\ args[c].max_rows = Some(1)
              /\ SubmittedSQL(c) =
                    <<"S","E","L","E","C","T"," ","*"," ","F","R","O","M"," ",
                      "(","\n","S","E","L","E","C","T"," ","1","\n",")"," ",
                      "A","S"," ","_","q","\n","L","I","M","I","T"," ","1">>
           \/ /\ args[c].query = <<"\n","\t","W","I","T","H"," ","t",";"," ">>
              /\ args[c].max_rows = Some(12)
              /\ SubmittedSQL(c) =
                    <<"S","E","L","E","C","T"," ","*"," ","F","R","O","M"," ",
                      "(","\n","W","I","T","H"," ","t","\n",")"," ",
                      "A","S"," ","_","q","\n","L","I","M","I","T"," ","1","2">>

\* describe_table has returned for call c: what it was given and what it gave
Described(c) == pc[c] = "described"
GivenRows(c) == rows[c]
ReturnedRows(c) == outcome[c].result[1]

\* (a) some row's name field contains a tab
NameHasTab(result_rows) ==
    \E i \in DOMAIN result_rows : \E j \in DOMAIN result_rows[i] :
        /\ result_rows[i][j][1] = "col_name"
        /\ result_rows[i][j][2] # None
        /\ \E k \in DOMAIN result_rows[i][j][2][1] :
              result_rows[i][j][2][1][k] = "\t"

\* some row has a populated (not null, not empty) field other than the name
OtherPopulated(result_rows) ==
    \E i \in DOMAIN result_rows : \E j \in DOMAIN result_rows[i] :
        /\ result_rows[i][j][1] # "col_name"
        /\ result_rows[i][j][2] # None
        /\ result_rows[i][j][2] # Some(<<>>)

SchemaKeys == <<"col_name", "data_type", "comment">>

\* C16: the normaliser splits the name field if and only if (a) some row's
\* name field contains a tab and (b) no row has a populated field other than
\* the name; so it splits when the metadata advertises several columns and
\* every row's type and comment are present and unpopulated; in every other
\* case the rows pass through unchanged.
C16_SplitsIffTabAndNoOtherPopulated ==
    \A c \in Calls :
        Described(c) =>
            IF NameHasTab(GivenRows(c)) /\ ~OtherPopulated(GivenRows(c))
            THEN /\ Len(ReturnedRows(c)) = Len(GivenRows(c))
                 /\ \A i \in DOMAIN ReturnedRows(c) :
                       /\ Keys(ReturnedRows(c)[i]) = SchemaKeys
                       /\ "\t" \notin Range(ReturnedRows(c)[i][1][2][1])
            ELSE ReturnedRows(c) = GivenRows(c)

\* the name, type and comment that each name field of the inputs stands for
SchemaFields ==
    { <<None, <<<<>>, <<>>, <<>>>> >>,
      <<Some(<<"i","d","\t","b","i","g","i","n","t","\t","p","r","i","m","a","r","y"," ","k","e","y">>), <<<<"i","d">>, <<"b","i","g","i","n","t">>, <<"p","r","i","m","a","r","y"," ","k","e","y">>>> >>,
      <<Some(<<"n","a","m","e","\t","v","a","r","c","h","a","r","\t">>), <<<<"n","a","m","e">>, <<"v","a","r","c","h","a","r">>, <<>>>> >>,
      <<Some(<<"i","d">>), <<<<"i","d">>, <<>>, <<>>>> >>,
      <<Some(<<" ","x"," ","\t"," ","i","n","t","\n">>), <<<<"x">>, <<"i","n","t">>, <<>>>> >>,
      <<Some(<<"a","\t","b","\t","c","\t","d">>), <<<<"a">>, <<"b">>, <<"c">>>> >>,
      <<Some(<<>>), <<<<>>, <<>>, <<>>>> >> }

\* the name field of a row: null when the row has none
NameField(row_data) ==
    IF \E j \in DOMAIN row_data : row_data[j][1] = "col_name"
    THEN row_data[CHOOSE j \in DOMAIN row_data : row_data[j][1] = "col_name"][2]
    ELSE None

\* C17: for rows of the single column col_name of which one at least holds
\* a tab, the normaliser returns one entry per row, in order, each with
\* exactly the fields col_name, data_type, comment: the first three
\* tab-separated parts of the row's name, each trimmed, a missing part being
\* the empty string.
C17_SplitRowsAreTrimmedParts ==
    \A c \in Calls :
        ( /\ Described(c)
          /\ columns[c] = <<"col_name">>
          /\ NameHasTab(GivenRows(c)) )
        => /\ Len(ReturnedRows(c)) = Len(GivenRows(c))
           /\ \A i \in DOMAIN GivenRows(c) :
                 \E f \in SchemaFields :
                    /\ f[1] = NameField(GivenRows(c)[i])
                    /\ ReturnedRows(c)[i] =
                          << <<"col_name", Some(f[2][1])>>,
                             <<"data_type", Some(f[2][2])>>,
                             <<"comment", Some(f[2][3])>> >>

\* the rows "id\tbigint\tprimary key" and "name\tvarchar\t" gave
\* (id, bigint, primary key) and (name, varchar, "")
C17_Witness ==
    \E c \in Calls :
        /\ Described(c)
        /\ columns[c] = <<"col_name">>
        /\ GivenRows(c) =
              << << <<"col_name", Some(<<"i","d","\t","b","i","g","i","n","t","\t","p","r","i","m","a","r","y"," ","k","e","y">>)>> >>,
                 << <<"col_name", Some(<<"n","a","m","e","\t","v","a","r","c","h","a","r","\t">>)>> >> >>
        /\ ReturnedRows(c) =
              << << <<"col_name", Some(<<"i","d">>)>>, <<"data_type", Some(<<"b","i","g","i","n","t">>)>>,
                    <<"comment", Some(<<"p","r","i","m","a","r","y"," ","k","e","y">>)>> >>,
                 << <<"col_name", Some(<<"n","a","m","e">>)>>, <<"data_type", Some(<<"v","a","r","c","h","a","r">>)>>,
                    <<"comment", Some(<<>>)>> >> >>

\* C18: when no row's name holds a tab, when there is no name column, when
\* some row has another populated column, or when there are no rows, the
\* normaliser returns the rows it was given, the same rows in the same order
\* with the same fields, and raises nothing.
C18_PassThroughUnchanged ==
    \A c \in Calls :
        ( /\ Described(c)
          /\ \/ ~NameHasTab(GivenRows(c))
             \/ "col_name" \notin Range(columns[c])
             \/ OtherPopulated(GivenRows(c))
             \/ GivenRows(c) = <<>> )
        => /\ outcome[c].kind = "return"
           /\ ReturnedRows(c) = GivenRows(c)

\* rows without a tab, and rows with a tab in the name next to a populated
\* type, came back as they were
C18_Witness ==
    \E c \in Calls :
        /\ Described(c)
        /\ Len(GivenRows(c)) = 2
        /\ ReturnedRows(c) = GivenRows(c)
        /\ \/ ~NameHasTab(GivenRows(c))
           \/ NameHasTab(GivenRows(c)) /\ OtherPopulated(GivenRows(c))

\* C19: every schema row describe_table returns, split or passed through,
\* has the three fields col_name, data_type and comment, each a string: the
\* empty string, never null or missing, where the service gave no value.
C19_SchemaRowsHaveThreeStrings ==
    \A c \in Calls :
        Described(c) =>
            \A i \in DOMAIN ReturnedRows(c) :
                /\ Keys(ReturnedRows(c)[i]) = SchemaKeys
                /\ \A j \in DOMAIN ReturnedRows(c)[i] :
                      ReturnedRows(c)[i][j][2] # None

\* the locals of call c
Locals(c) ==
    <<pc[c], args[c], query_execution_id[c], elapsed[c], state[c], columns[c],
      rows[c], next_token[c], is_first_page[c], outcome[c], request[c],
      reply[c], log[c]>>

\* the QueryResult call c returns when it runs alone against its execution
AloneRows(c) ==
    LET n == IF args[c].max_rows = None THEN Available(c)
             ELSE Min(args[c].max_rows[1], Available(c))
    IN  [i \in 1..n |-> ExpectedRow(i)]

\* each call works on its own execution and returns its own result
OwnExecutionOnly ==
    \A c \in Calls :
        /\ \A i \in DOMAIN log[c] :
              log[c][i].id \in {0, query_execution_id[c]}
        /\ \A d \in Calls \ {c} :
              (Submitted(c) /\ Submitted(d)) =>
                  query_execution_id[c] # query_execution_id[d]
        /\ outcome[c].kind = "return" =>
              /\ outcome[c].result[1].query_execution_id = query_execution_id[c]
              /\ outcome[c].result[1].columns = <<ColumnLabel>>
              /\ outcome[c].result[1].rows = AloneRows(c)

\* a step writes the locals of one call at most, and never the client
OneCallPerStep ==
    /\ self' = self
    /\ \A c, d \in Calls :
          (Locals(c)' # Locals(c) /\ Locals(d)' # Locals(d)) => c = d

\* C20: when two execute_query calls run concurrently on one client, under
\* every interleaving each call polls and fetches only its own execution id
\* and returns the QueryResult (columns, rows, execution id) it returns when
\* run alone; no step of one call writes the client or the other call's
\* state.
C20_ConcurrentCallsIsolated == []OwnExecutionOnly /\ [][OneCallPerStep]_vars

\* the call that submitted second has returned the one row of its three
\* while the call that submitted first is still fetching its empty result
C20_Witness ==
    /\ query_execution_id[1] = 2
    /\ query_execution_id[2] = 1
    /\ outcome[1].kind = "return"
    /\ Available(1) = 3
    /\ Len(outcome[1].result[1].rows) = 1
    /\ pc[2] = "fetch"
    /\ Pages(2) # <<>>
    /\ Available(2) = 0

\* the database.table each table name given to an operation stands for
Targets ==
    { <<<<"t">>, <<"d","1","1","_","s","t","i","t","c","h",".","t">>>>,
      <<<<"d","b",".","t">>, <<"d","b",".","t">>>>,
      <<<<" ","d","b",".","t","\n">>, <<"d","b",".","t">>>>,
      <<<<" ","t"," ">>, <<"d","1","1","_","s","t","i","t","c","h",".","t">>>> }

\* the statement an operation submits for a target
StatementFor(op, target) ==
    CASE op = "describe_table_fq" -> <<"D","E","S","C","R","I","B","E"," ">> \o target
      [] op = "show_create_table_fq" -> <<"S","H","O","W"," ","C","R","E","A","T","E"," ","T","A","B","L","E"," ">> \o target
      [] op = "get_sample_data_fq" -> <<"S","E","L","E","C","T"," ","*"," ","F","R","O","M"," ">> \o target \o <<" ","L","I","M","I","T"," ","3">>

ToolPrefixes ==
    { <<"run_query", "Query failed: ">>,
      <<"list_tables", "Failed to list tables: ">>,
      <<"describe_table", "Failed to describe table: ">>,
      <<"get_sample_data", "Failed to get sample data: ">> }

\* C21: every call of a tool (run_query, list_tables, describe_table,
\* get_sample_data) ends with a text, whatever the operation of the client
\* did: when the operation raised (submission error, TimeoutError, remote
\* failure, fetch error) the text is the tool's words followed by the
\* message of the error, and the call never ends without a text.
C21_ToolsReturnText ==
    \A c \in Calls :
        request[c].tool # "" =>
            /\ (pc[c] = "done" /\ outcome[c].kind = "raise") =>
                  ENABLED ToolReply(c)
            /\ pc[c] = "replied" =>
                  /\ reply[c] # None
                  /\ outcome[c].kind = "raise" =>
                        \E t \in ToolPrefixes :
                            /\ t[1] = request[c].tool
                            /\ reply[c] = Some(<< <<t[2], outcome[c].msg>> >>)

\* describe_table has answered a remote failure with its reason in a text
C21_Witness ==
    \E c \in Calls :
        /\ pc[c] = "replied"
        /\ request[c].tool = "describe_table"
        /\ outcome[c].exc = "RuntimeError"
        /\ reply[c] = Some(<< <<"Failed to describe table: ",
                                "Query failed: SYNTAX_ERROR: line 1">> >>)

\* what the service answered to the requests of call c, in order
Answers(c) ==
    LET remote == SelectSeq(log[c], LAMBDA e :
                      e.op \notin {"deadline_check", "sleep"})
    IN  [i \in DOMAIN remote |->
            <<remote[i].op, remote[i].got, remote[i].n, remote[i].next>>]

\* the service answered both calls alike, from equal result tables
SameAnswers ==
    /\ Answers(1) = Answers(2)
    /\ Submitted(1) /\ Submitted(2)
    /\ executions[query_execution_id[1]].ColumnInfo =
          executions[query_execution_id[2]].ColumnInfo
    /\ executions[query_execution_id[1]].Rows =
          executions[query_execution_id[2]].Rows

\* C23: describe_table called twice for the same table, the service
\* answering both calls with the same states and the same result pages,
\* gives two identical normalised schemas: the same entries in the same
\* order with the same field values, whatever the first call did before or
\* while the second ran.
C23_DescribeTwiceSameSchema ==
    (Described(1) /\ Described(2) /\ SameAnswers) =>
        ReturnedRows(1) = ReturnedRows(2)

\* both calls have returned the schema split from tab-separated rows
C23_Witness ==
    /\ Described(1) /\ Described(2) /\ SameAnswers
    /\ Len(ReturnedRows(1)) = 2
    /\ Keys(ReturnedRows(1)[1]) = SchemaKeys
    /\ ReturnedRows(2)[1][2] = <<"data_type", Some(<<"b","i","g","i","n","t">>)>>
    /\ GivenRows(1) # ReturnedRows(1)

\* the row records call c held once the first j page requests were answered
HeldAfter(c, j) ==
    LET got == RowsIn(SubSeq(Pages(c), 1, j))
        data == IF got = 0 THEN 0 ELSE got - 1
    IN  IF args[c].max_rows = None THEN data
        ELSE Min(args[c].max_rows[1], data)

\* C24: the first page request of _fetch_results carries no continuation
\* token and every later one carries the token the page before it returned;
\* a page request is made only if every page before it returned a token and
\* the rows held are fewer than the cap, so that paging stops at the first
\* page without a token or at the cap, whichever comes first.
C24_TokensChainAndPagingStops ==
    \A c \in Calls :
        /\ \A i \in DOMAIN Pages(c) :
              /\ i = 1 => Pages(c)[i].NextToken = None
              /\ i > 1 => /\ Pages(c)[i - 1].got = "page"
                          /\ Pages(c)[i - 1].next # None
                          /\ Pages(c)[i].NextToken = Pages(c)[i - 1].next
              /\ args[c].max_rows # None =>
                    HeldAfter(c, i - 1) < args[c].max_rows[1]
        /\ ( /\ pc[c] = "fetch"
             /\ Pages(c) # <<>> )
           => Pages(c)[Len(Pages(c))].next # None

\* a capped fetch stopped at the cap while the last page had returned a
\* token, after a second request that carried the first page's token
C24_Witness ==
    \E c \in Calls :
        /\ outcome[c].kind = "return"
        /\ args[c].max_rows = Some(2)
        /\ Len(Pages(c)) >= 2
        /\ Pages(c)[2].NextToken = Pages(c)[1].next
        /\ Pages(c)[Len(Pages(c))].next # None
        /\ Len(outcome[c].result[1].rows) = 2

\* C25: with a row cap, every page request asks for exactly
\* min(max_results, remaining + header_allowance) rows, remaining being the
\* cap less the rows held so far and header_allowance 1 for the first
\* request and 0 for the later ones; the size asked for is at least 1 and at
\* most max_results.
C25_PageSizeUnderCap ==
    \A c \in Calls :
        args[c].max_rows # None =>
            \A i \in DOMAIN Pages(c) :
                LET remaining == args[c].max_rows[1] - HeldAfter(c, i - 1)
                    header_allowance == IF i = 1 THEN 1 ELSE 0
                IN  /\ Pages(c)[i].MaxResults =
                          Min(self.max_results, remaining + header_allowance)
                    /\ Pages(c)[i].MaxResults >= 1
                    /\ Pages(c)[i].MaxResults <= self.max_results

\* with a cap of 1 and max_results 2 the first request asked for 2 rows, got
\* the header alone, and the second asked for 1
C25_Witness ==
    \E c \in Calls :
        /\ args[c].max_rows = Some(1)
        /\ self.max_results = 2
        /\ Len(Pages(c)) >= 2
        /\ Pages(c)[1].MaxResults = 2
        /\ Pages(c)[1].n = 1
        /\ Pages(c)[2].MaxResults = 1

\* the deadline is checked before every poll and nowhere else, and the
\* check raises exactly when it reads an elapsed time above the timeout
ChecksGuardPolls(c) ==
    /\ \A i \in DOMAIN log[c] :
          /\ log[c][i].op = "poll" =>
                /\ i > 1
                /\ log[c][i - 1].op = "deadline_check"
                /\ log[c][i - 1].got = "ok"
          /\ log[c][i].op = "deadline_check" =>
                /\ log[c][i].got = "TimeoutError" <=>
                      log[c][i].elapsed > self.timeout
                /\ i < Len(log[c]) => log[c][i + 1].op = "poll"
    /\ outcome[c].exc = "TimeoutError" =>
          /\ log[c][Len(log[c])].op = "deadline_check"
          /\ log[c][Len(log[c])].got = "TimeoutError"

\* C26 as stated: the poller checks the deadline before every status poll
\* and nowhere else, TimeoutError is raised only at such a check and only
\* when the elapsed time strictly exceeds the timeout, and for any timeout
\* >= 0 the first check never raises, so that at least one status poll is
\* always issued.
C26_Original ==
    \A c \in Calls :
        /\ ChecksGuardPolls(c)
        /\ Checks(c) # <<>> => Checks(c)[1].got = "ok"
        /\ outcome[c].exc = "TimeoutError" => Polls(c) # <<>>

\* C26: the poller checks the deadline before every status poll and nowhere
\* else; TimeoutError is raised only at such a check and only when the
\* elapsed time read there strictly exceeds the timeout; a first check that
\* reads an elapsed time of at most the timeout, zero in particular, does
\* not raise and a status poll follows it.
C26_DeadlineCheckedBeforeEachPoll ==
    \A c \in Calls :
        /\ ChecksGuardPolls(c)
        /\ ( /\ Checks(c) # <<>>
             /\ Checks(c)[1].elapsed <= self.timeout )
           => /\ Checks(c)[1].got = "ok"
              /\ pc[c] # "poll" => Polls(c) # <<>>

\* with timeout 0 the first check read no elapsed time and a poll followed;
\* the check after the sleep raised
C26_Witness ==
    \E c \in Calls :
        /\ self.timeout = 0
        /\ Len(Checks(c)) = 2
        /\ Checks(c)[1].elapsed = 0
        /\ Len(Polls(c)) = 1
        /\ outcome[c].exc = "TimeoutError"

\* C27: the failure-reason lookup is a status call of its own, made by
\* execute_query only when the poller returned a state other than SUCCEEDED,
\* and then exactly once, right after the poller's last poll; on the success
\* path nothing is asked of the service between that poll and the first
\* result-page request.
C27_ReasonLookupOnlyOnFailure ==
    \A c \in Calls :
        /\ Len(Entries(c, "reason")) <= 1
        /\ \A i \in DOMAIN log[c] :
              /\ log[c][i].op = "reason" =>
                    /\ i > 1
                    /\ log[c][i - 1].op = "poll"
                    /\ log[c][i - 1].got \in {"FAILED", "CANCELLED"}
              /\ ( /\ log[c][i].op = "get_query_results"
                   /\ \A j \in 1..(i - 1) : log[c][j].op # "get_query_results" )
                 => /\ i > 1
                    /\ log[c][i - 1].op = "poll"
                    /\ log[c][i - 1].got = "SUCCEEDED"
        /\ ( /\ pc[c] = "done"
             /\ Polls(c) # <<>>
             /\ Polls(c)[Len(Polls(c))].got \in {"FAILED", "CANCELLED"} )
           => Len(Entries(c, "reason")) = 1
        /\ Pages(c) # <<>> => Entries(c, "reason") = <<>>

\* a cancelled execution had its reason looked up once, and the call raised
C27_Witness ==
    \E c \in Calls :
        /\ pc[c] = "done"
        /\ Len(Polls(c)) >= 2
        /\ Polls(c)[Len(Polls(c))].got = "CANCELLED"
        /\ Len(Entries(c, "reason")) = 1
        /\ outcome[c].exc = "RuntimeError"

\* the text is a bounding query around a subquery
IsWrapped(sql) ==
    /\ Len(sql) >= 16
    /\ SubSeq(sql, 1, 16) =
          <<"S","E","L","E","C","T"," ","*"," ","F","R","O","M"," ","(","\n">>

\* C28: the submitted SQL is a wrapped bounding query if and only if limit
\* enforcement is requested, a row cap is given, and the statement's leading
\* keyword (ignoring case and leading whitespace) is not in the
\* non-wrappable set; a statement whose leading keyword is in the set is
\* never submitted inside a subquery; without enforcement or without a cap
\* the caller's SQL is submitted unchanged.
C28_WrappedIffEnforcedCappedWrappable ==
    \A c \in Calls :
        \A p \in QueryParts :
            (Submitted(c) /\ args[c].query = QueryText(p)) =>
                /\ IsWrapped(SubmittedSQL(c)) <=>
                      /\ args[c].enforce_limit
                      /\ args[c].max_rows # None
                      /\ p.statement.keyword \notin NonWrappableNames
                /\ p.statement.keyword \in NonWrappableNames =>
                      "(" \notin Range(SubmittedSQL(c))
                /\ (~args[c].enforce_limit \/ args[c].max_rows = None) =>
                      SubmittedSQL(c) = args[c].query

\* "show tables" in lower case, with whitespace and a terminator around it,
\* enforcement on and a cap of 1, was submitted outside any subquery
C28_Witness ==
    \E c \in Calls :
        /\ Submitted(c)
        /\ args[c].enforce_limit
        /\ args[c].max_rows = Some(1)
        /\ args[c].query = <<"\n","\t","s","h","o","w"," ","t","a","b","l","e","s",";"," ">>
        /\ ~IsWrapped(SubmittedSQL(c))
        /\ SubmittedSQL(c) = <<"s","h","o","w"," ","t","a","b","l","e","s">>

\* the deadline checks of a call are at most floor(timeout / poll_interval) + 2
ChecksBounded ==
    \A c \in Calls :
        Len(Checks(c)) <= (self.timeout \div self.poll_interval) + 2

\* C29: the poller always terminates: with poll_interval > 0, a finite
\* timeout and a clock that advances by at least poll_interval at each
\* sleep, every call of _wait_for_completion in the end returns a terminal
\* state or raises TimeoutError, after at most
\* floor(timeout / poll_interval) + 2 deadline checks, whatever states the
\* service reports.
C29_PollerTerminates ==
    /\ []ChecksBounded
    /\ \A c \in Calls : (pc[c] = "check") ~> (pc[c] \in {"waited", "done"})

\* timeout 3 and interval 2: checks at 0, 2 and 4, the third raised
C29_Witness ==
    \E c \in Calls :
        /\ self.timeout = 3
        /\ self.poll_interval = 2
        /\ Len(Checks(c)) = 3
        /\ AllRunning(c)
        /\ outcome[c].exc = "TimeoutError"

\* C30: with a row cap of 0, _fetch_results makes no result-page request,
\* still makes the statistics lookup, and returns a QueryResult with no rows
\* and an empty column list: the declared columns are not retrieved.
C30_ZeroCapFetchesNothing ==
    \A c \in Calls :
        (pc[c] # "absent" /\ args[c].max_rows = Some(0)) =>
            /\ Pages(c) = <<>>
            /\ ( /\ pc[c] = "done"
                 /\ Polls(c) # <<>>
                 /\ Polls(c)[Len(Polls(c))].got = "SUCCEEDED" )
               => Len(Entries(c, "statistics")) = 1
            /\ outcome[c].kind = "return" =>
                  /\ outcome[c].result[1].rows = <<>>
                  /\ outcome[c].result[1].columns = <<>>
                  /\ log[c][Len(log[c])].op = "statistics"

\* a call with a cap of 0 on an execution that holds rows has returned
C30_Witness ==
    \E c \in Calls :
        /\ pc[c] # "absent"
        /\ args[c].max_rows = Some(0)
        /\ outcome[c].kind = "return"
        /\ Available(c) >= 1
        /\ outcome[c].result[1].columns = <<>>
        /\ outcome[c].result[1].statistics # None

==========================================================================
